---- MODULE Spec2Model ----
(***************************************************************************)
(* A model of concierge's Manager, Plan and System worker.                 *)
(*                                                                         *)
(* One behaviour is a sequence of CLI invocations (prepare or restore) on  *)
(* one host.  Each invocation is one process: a fresh Manager, a fresh     *)
(* System (and so a fresh lock table) and one asyncio event loop; only     *)
(* the persisted record ~/.cache/concierge/concierge.yaml outlives it.     *)
(*                                                                         *)
(* Every handler is a coroutine that makes a sequence of Worker calls;     *)
(* the model keeps each run_exclusive call as one op of the handler's      *)
(* program and folds a straight-line run of other awaits (run,             *)
(* run_with_retries, home-file I/O) into one op of kind "work" or "io".    *)
(* A subprocess may exit nonzero at any time: that is the environment's    *)
(* choice.  Writes of the persisted record by the Manager are taken to     *)
(* succeed.                                                                *)
(***************************************************************************)
EXTENDS Integers, Sequences, FiniteSets, TLC

(* Bounds of the model: the lengths of host.snaps and host.packages, and   *)
(* the number of providers a configuration enables.                        *)
MaxSnaps == 1
MaxDebs == 1
MaxEnabled == 2

(***************************************************************************)
(* Configuration                                                           *)
(***************************************************************************)
SUPPORTED_PROVIDERS == <<"lxd", "microk8s", "k8s", "google">>

ProviderNames == {SUPPORTED_PROVIDERS[i] : i \in 1..Len(SUPPORTED_PROVIDERS)}

Status == {"provisioning", "succeeded", "failed"}

(* ConciergeConfig, reduced to the fields Plan and Manager read:           *)
(*   enable           providers.<p>.enable, as the set of enabled names    *)
(*   juju_disable     juju.disable                                         *)
(*   disable_juju     overrides.disable_juju                               *)
(*   snaps, packages  the lengths of host.snaps and host.packages: each    *)
(*                    list is empty or of the bounded length               *)
(*   credentials_file providers.google.credentials_file is non-empty       *)
(*   status           the runtime field status                             *)
ConciergeConfig ==
    {c \in [enable : SUBSET ProviderNames,
            juju_disable : BOOLEAN,
            disable_juju : BOOLEAN,
            snaps : {0, MaxSnaps},
            packages : {0, MaxDebs},
            credentials_file : BOOLEAN,
            status : Status] :
        /\ Cardinality(c.enable) <= MaxEnabled
        /\ c.credentials_file => "google" \in c.enable}

(* What a Manager is constructed with: status has its default. *)
SuppliedConfigs == {c \in ConciergeConfig : c.status = "provisioning"}

NoRecord == [absent |-> TRUE]

(***************************************************************************)
(* Tasks                                                                   *)
(***************************************************************************)
PackageHandlers == {"snap", "deb"}

SubTasks == {"k8s_iptables", "k8s_snaps"}

Tasks == PackageHandlers \cup ProviderNames \cup {"juju"} \cup SubTasks

(* The coroutine that awaits a task: Plan.execute for the handlers,        *)
(* K8s._install for its two installers.                                    *)
Parent(t) == IF t \in SubTasks THEN "k8s" ELSE "main"

Executables == {"snap", "apt-get"}

VARIABLES
    action,         \* the CLI command of this invocation
    config,         \* Manager.config
    record,         \* the persisted record, or NoRecord
    mpc,            \* where Manager / Plan.execute stands
    plan,           \* the Plan's snaps, debs and providers
    restart,        \* LXD._workaround_refresh found a refresh that needs a restart
    phase,          \* per task: idle, ready, wait, run, await, done, failed, cancelled
    ix,             \* per task: the op it is at
    exc,            \* per task and "main": the exception it holds
    command_locks,  \* System._command_locks: per executable the locks created
                    \* for it, the last one being the entry (<<>>: no entry)
    tlock,          \* per task: the lock it holds or waits for (0: none)
    credentials,    \* Google._credentials is non-empty
    outcome,        \* how the invocation ended: "none", "ok" or the exception
    written         \* the statuses this invocation wrote to the record, in order

planvars == <<action, config, record, mpc, plan, restart, phase, ix, exc,
              command_locks, tlock, credentials, outcome, written>>

(* The units that are studied on their own, each under a specification of  *)
(* its own: JujuHandler, System.run_with_retries and SnapdClient.          *)
VARIABLES
    jaction,        \* JujuHandler: the method do_action calls, or "none"
    jproviders,     \* JujuHandler.providers, in order
    jbootstrap,     \* per provider: Provider.bootstrap()
    jcreds,         \* per provider: Provider.credentials() is non-empty
    controllers,    \* the providers whose controller concierge-<name> exists
    models,         \* the providers whose controller has the model testing
    jh,             \* where JujuHandler.prepare / restore stands
    jpc,            \* per provider: where _bootstrap_provider / _kill_provider stands
    jtry,           \* per provider: the attempt number of the command it is at
    jshow,          \* per provider: the result of its last show-controller
    jfound,         \* per provider: what _check_bootstrapped returned
    jissued,        \* per provider: the juju subcommands started in this run
    jdone,          \* per provider: the juju subcommands that exited 0 in this run
    jboot,          \* per provider: the bootstrap commands started in this run
    jremoved,       \* what restore removed in this run: "data", "snap"
    jmade,          \* what prepare made in this run, in order
    jprev,          \* the run before this one: action, outcome, bootstrap counts
    jout            \* how this run ended: "none", "ok" or the exception

jujuvars == <<jaction, jproviders, jbootstrap, jcreds, controllers, models, jh,
              jpc,
              jtry, jshow, jfound, jissued, jdone, jboot, jremoved, jmade, jprev,
              jout>>

(* The providers a JujuHandler is studied with: LXD, whose credentials()   *)
(* is always empty, and Google, whose credentials() is what prepare read.  *)
JujuProviderNames == {"lxd", "google"}

NoResult == [rc |-> -1, output |-> <<>>]

NoRun == [action |-> "none", ok |-> FALSE,
          boot |-> [p \in JujuProviderNames |-> 0]]

(* A JujuHandler that has not been constructed.                            *)
JujuFresh ==
    /\ jpc = [p \in JujuProviderNames |-> "idle"]
    /\ jtry = [p \in JujuProviderNames |-> 0]
    /\ jshow = [p \in JujuProviderNames |-> NoResult]
    /\ jfound = [p \in JujuProviderNames |-> "unknown"]
    /\ jissued = [p \in JujuProviderNames |-> {}]
    /\ jdone = [p \in JujuProviderNames |-> {}]
    /\ jboot = [p \in JujuProviderNames |-> 0]
    /\ jremoved = {}
    /\ jmade = <<>>
    /\ jout = "none"

JujuIdle ==
    /\ jaction = "none"
    /\ jproviders = <<>>
    /\ jbootstrap = [p \in JujuProviderNames |-> FALSE]
    /\ jcreds = [p \in JujuProviderNames |-> FALSE]
    /\ controllers = {}
    /\ models = {}
    /\ jh = "finished"
    /\ jprev = NoRun
    /\ JujuFresh

(* System.run_with_retries: one call at a time, time counted in seconds    *)
(* since the call.                                                         *)
VARIABLES
    rpc,            \* "idle", "running", "waiting", "returned", "raised"
    rmax,           \* max_duration_sec of the call
    rnow,           \* seconds since the call began
    rstart,         \* when the attempt in flight was started
    rwake,          \* when the backoff sleep ends
    rattempt,       \* the number of the attempt in flight or last made
    rlast,          \* the outcome of the last attempt
    rresult         \* what the call returned or raised

retryvars == <<rpc, rmax, rnow, rstart, rwake, rattempt, rlast, rresult>>

NoOutcome == [type |-> "none"]

RetryIdle ==
    /\ rpc = "idle"
    /\ rmax = 0
    /\ rnow = 0
    /\ rstart = 0
    /\ rwake = 0
    /\ rattempt = 0
    /\ rlast = NoOutcome
    /\ rresult = NoOutcome

(* SnapdClient: one snap_info or snap_channels call at a time.             *)
VARIABLES
    scall,          \* "none", "snap_info" or "snap_channels"
    spc,            \* "idle", the request in progress ("get", "find"), "returned", "raised"
    socket,         \* socket_path.exists()
    satt,           \* per request: the attempts made in this call
    slast,          \* per request: the outcome of its last attempt
    sexc,           \* per request: the exception _with_retry raised
    sinstalled,     \* what _snap_installed_info returned
    sresult         \* what the call returned or raised

snapdvars == <<scall, spc, socket, satt, slast, sexc, sinstalled, sresult>>

Requests == {"get", "find"}

NoError == <<>>

NoAttempts == [r \in Requests |-> 0]

NoOutcomes == [r \in Requests |-> NoOutcome]

NoErrors == [r \in Requests |-> NoError]

SnapdIdle ==
    /\ scall = "none"
    /\ spc = "idle"
    /\ socket = TRUE
    /\ satt = NoAttempts
    /\ slast = NoOutcomes
    /\ sexc = NoErrors
    /\ sinstalled = FALSE
    /\ sresult = NoOutcome

(* DebHandler: one prepare at a time.                                      *)
VARIABLES
    dpackages,      \* DebHandler.packages
    dpc,            \* "idle", "update", "install", "returned", "raised"
    dix,            \* the package the for loop is at
    dlog            \* the apt-get commands started, with their exit codes

debvars == <<dpackages, dpc, dix, dlog>>

DebIdle ==
    /\ dpackages = <<>>
    /\ dpc = "idle"
    /\ dix = 0
    /\ dlog = <<>>

(* SnapHandler: one prepare at a time.                                     *)
VARIABLES
    hsnaps,         \* SnapHandler.snaps
    hpc,            \* "idle", "info", "command", "returned", "raised"
    hix,            \* the snap the for loop of prepare is at
    hcx,            \* the connection the for loop of _connect_snap is at
    hinfos,         \* what snap_info returned, snap by snap
    hlog            \* the snap commands started, with how they ended

snaphvars == <<hsnaps, hpc, hix, hcx, hinfos, hlog>>

SnapHandlerIdle ==
    /\ hsnaps = <<>>
    /\ hpc = "idle"
    /\ hix = 0
    /\ hcx = 0
    /\ hinfos = <<>>
    /\ hlog = <<>>

(* The functions that are studied on their own: one application of one    *)
(* function to one input.                                                  *)
VARIABLES
    fname,          \* the function
    farg,           \* its input
    fout,           \* what it returned or raised
    fdone           \* whether it has been applied

funvars == <<fname, farg, fout, fdone>>

FunctionsIdle ==
    /\ fname = "none"
    /\ farg = <<>>
    /\ fout = <<>>
    /\ fdone = FALSE

unitvars == <<jujuvars, retryvars, snapdvars, debvars, snaphvars, funvars>>

vars == <<planvars, unitvars>>

(***************************************************************************)
(* Programs of the handlers                                                *)
(*                                                                         *)
(* An op is one await of the coroutine:                                    *)
(*   kind   "excl"   Worker.run_exclusive(Command(exe, verb ...))          *)
(*          "work"   subprocesses started through run / run_with_retries   *)
(*          "io"     an await that starts no subprocess                    *)
(*          "gather" asyncio.gather over the tasks in kids                 *)
(*   pre    a snap_info query precedes the command and may raise           *)
(*   fails  the op's failure is raised to the caller                       *)
(*   ret    on success the coroutine returns                               *)
(*   alt    how many ops to advance on a failure the code catches (0: the  *)
(*          code catches none)                                             *)
(***************************************************************************)
Op(kind, exe, verb) ==
    [kind |-> kind, exe |-> exe, verb |-> verb, pre |-> FALSE, fails |-> TRUE,
     ret |-> FALSE, alt |-> 0, kids |-> {}]

Excl(exe, verb) == Op("excl", exe, verb)

Work(exe, verb) == Op("work", exe, verb)

Io(verb) == Op("io", "", verb)

Gather(kids) == [Op("gather", "", "gather") EXCEPT !.kids = kids]

Rep(n, s) == [i \in 1..(n * Len(s)) |-> s[((i - 1) % Len(s)) + 1]]

(* SnapHandler.prepare: per snap, snap_info then snap install|refresh;     *)
(* the snaps are taken to declare no connections.                          *)
SnapInstall == [Excl("snap", "install") EXCEPT !.pre = TRUE]

SnapHandlerPrepare(n) == Rep(n, <<SnapInstall>>)

(* SnapHandler.restore: per snap, snap remove --purge. *)
SnapHandlerRestore(n) == Rep(n, <<Excl("snap", "remove")>>)

(* DebHandler.prepare: nothing for an empty list, else apt-get update and  *)
(* one apt-get install per package.                                        *)
DebHandlerPrepare(n) ==
    IF n = 0 THEN <<>>
    ELSE <<Excl("apt-get", "update")>> \o Rep(n, <<Excl("apt-get", "install")>>)

(* DebHandler.restore: one apt-get remove per package, then autoremove. *)
DebHandlerRestore(n) ==
    Rep(n, <<Excl("apt-get", "remove")>>) \o <<Excl("apt-get", "autoremove")>>

(* LXD.prepare.  stop is _workaround_refresh's answer. *)
LXDStartUnlocked == Work("snap", "start")

LXDStart == Excl("snap", "start")

LXDPrepare(stop) ==
    (IF stop THEN <<[Excl("snap", "stop") EXCEPT !.pre = TRUE]>> ELSE <<>>)
    \o SnapHandlerPrepare(1)
    \o (IF stop THEN <<LXDStart>> ELSE <<>>)
    \o <<Work("lxd", "init")>>

LXDRestore == SnapHandlerRestore(1)

(* MicroK8s.prepare: microk8s and kubectl snaps, then init, addons,        *)
(* usermod and kubectl setup.                                              *)
MicroK8sPrepare == SnapHandlerPrepare(2) \o <<Work("microk8s", "init")>>

MicroK8sRestore == SnapHandlerRestore(2) \o <<Io("remove_kube")>>

(* K8s.prepare: gather(install_iptables, install_snaps), then _init,       *)
(* _configure_features and _setup_kubectl.                                 *)
K8sPrepare == <<Gather({"k8s_iptables", "k8s_snaps"}), Work("k8s", "init")>>

(* install_iptables: `which iptables`; a CommandError is caught and        *)
(* answered with DebHandler(["iptables"]).prepare().                       *)
K8sInstallIptables ==
    <<[Work("which", "iptables") EXCEPT !.fails = FALSE, !.ret = TRUE, !.alt = 1]>>
    \o DebHandlerPrepare(1)

K8sInstallSnaps == SnapHandlerPrepare(2)

(* K8s.restore: remove the snaps, remove ~/.kube, _restore_containerd      *)
(* (which catches every CommandError).                                     *)
K8sRestore ==
    SnapHandlerRestore(2)
    \o <<Io("remove_kube"),
         [Work("systemctl", "containerd") EXCEPT !.fails = FALSE, !.alt = 1]>>

(* Google.prepare: nothing without a credentials file, else read_file.     *)
GooglePrepare(file) == IF file THEN <<Io("read_credentials")>> ELSE <<>>

GoogleRestore == <<>>

(* JujuHandler.prepare: the juju snap, the data directory and the          *)
(* credentials file, then _bootstrap.                                      *)
JujuPrepare ==
    SnapHandlerPrepare(1) \o <<Io("data_dir"), Work("juju", "bootstrap")>>

(* JujuHandler.restore: _kill_provider for each provider with              *)
(* credentials, remove the data directory, remove the juju snap.           *)
JujuKill ==
    <<[Work("juju", "show-controller") EXCEPT !.alt = 2],
      Work("juju", "kill-controller")>>

JujuRestore(creds) ==
    Rep(Cardinality(creds), JujuKill)
    \o <<Io("remove_data_dir")>> \o SnapHandlerRestore(1)

(***************************************************************************)
(* Plan.__init__                                                           *)
(***************************************************************************)
RECURSIVE Filter(_, _)
Filter(s, keep) ==
    IF s = <<>> THEN <<>>
    ELSE (IF Head(s) \in keep THEN <<Head(s)>> ELSE <<>>) \o Filter(Tail(s), keep)

CreateProviderWhateverEnable(name, c) == name \in ProviderNames

(* create_provider answers a provider for an enabled name and None else. *)
CreateProvider(name, c) == name \in c.enable

(* The plan's snaps and debs (as lengths), its providers in the order of   *)
(* SUPPORTED_PROVIDERS, and the credentials file the Google provider was   *)
(* constructed with.                                                       *)
PlanProviders(c) ==
    Filter(SUPPORTED_PROVIDERS, {n \in ProviderNames : CreateProvider(n, c)})

BuildPlan(c) ==
    [snaps |-> c.snaps,
     debs |-> c.packages,
     providers |-> PlanProviders(c),
     credentials_file |-> c.credentials_file]

NoPlan == [snaps |-> 0, debs |-> 0, providers |-> <<>>, credentials_file |-> FALSE]

(* The override applied at the end of Plan.__init__. *)
ApplyDisableJujuNever(c) == c

ApplyDisableJuju(c) ==
    IF c.disable_juju THEN [c EXCEPT !.juju_disable = TRUE] ELSE c

Range(s) == {s[i] : i \in 1..Len(s)}

(* do_action(executable, action): the coroutine of handler t. *)
Program(t) ==
    IF action = "prepare" THEN
        CASE t = "snap" -> SnapHandlerPrepare(plan.snaps)
          [] t = "deb" -> DebHandlerPrepare(plan.debs)
          [] t = "lxd" -> LXDPrepare(restart)
          [] t = "microk8s" -> MicroK8sPrepare
          [] t = "k8s" -> K8sPrepare
          [] t = "google" -> GooglePrepare(plan.credentials_file)
          [] t = "juju" -> JujuPrepare
          [] t = "k8s_iptables" -> K8sInstallIptables
          [] t = "k8s_snaps" -> K8sInstallSnaps
    ELSE
        CASE t = "snap" -> SnapHandlerRestore(plan.snaps)
          [] t = "deb" -> DebHandlerRestore(plan.debs)
          [] t = "lxd" -> LXDRestore
          [] t = "microk8s" -> MicroK8sRestore
          [] t = "k8s" -> K8sRestore
          [] t = "google" -> GoogleRestore
          [] t = "juju" ->
               JujuRestore({p \in Range(plan.providers) :
                                p = "google" /\ credentials})
          [] OTHER -> <<>>

(***************************************************************************)
(* The event loop: steps of the tasks                                      *)
(***************************************************************************)
CurOp(t) == Program(t)[ix[t]]

AtOp(t, kind) ==
    /\ ix[t] <= Len(Program(t))
    /\ CurOp(t).kind = kind

Idle == [t \in Tasks |-> "idle"]

(* The coroutine goes on by n ops, or returns.  Worker.run awaits nothing  *)
(* before it creates the subprocess.                                       *)
PhaseAfter(t, n, ret) ==
    IF ret \/ ix[t] + n > Len(Program(t)) THEN "done"
    ELSE IF Program(t)[ix[t] + n].kind = "work" THEN "run"
    ELSE "ready"

(* Task t raises e: its future holds e, and the gather that awaits it      *)
(* keeps the first exception any of its children raised.                   *)
ExcAfterRaise(t, e) ==
    [exc EXCEPT ![t] = e,
                ![Parent(t)] = IF exc[Parent(t)] = "none" THEN e ELSE @]

(* A coroutine that has returned or raised keeps no frame. *)
Raise(t, e) ==
    /\ phase' = [phase EXCEPT ![t] = "failed"]
    /\ exc' = ExcAfterRaise(t, e)
    /\ ix' = [ix EXCEPT ![t] = 1]

Advance(t, n, ret) ==
    /\ phase' = [phase EXCEPT ![t] = PhaseAfter(t, n, ret)]
    /\ ix' = [ix EXCEPT ![t] = IF PhaseAfter(t, n, ret) = "done" THEN 1 ELSE @ + n]
    /\ UNCHANGED exc

Running(t) == phase[t] = "run"

(* One event loop runs everything: a task takes a step only while the      *)
(* main coroutine is suspended in an await of Plan.execute.                *)
MainSuspended == mpc \in {"gather1", "gather2", "juju"}

(* A coroutine with nothing to await returns when it is first run. *)
Return(t) ==
    /\ MainSuspended
    /\ phase[t] = "ready"
    /\ ix[t] > Len(Program(t))
    /\ phase' = [phase EXCEPT ![t] = "done"]
    /\ UNCHANGED <<action, config, record, mpc, plan, restart, ix, exc,
                   command_locks, tlock, credentials, outcome, written>>
    /\ UNCHANGED unitvars

(* An await that starts no subprocess: it succeeds or raises.  Google's    *)
(* prepare caches the credentials it read.                                 *)
StepIo(t) ==
    /\ MainSuspended
    /\ phase[t] = "ready"
    /\ AtOp(t, "io")
    /\ \/ /\ Advance(t, 1, FALSE)
          /\ credentials' = (credentials \/ CurOp(t).verb = "read_credentials")
       \/ /\ Raise(t, t)
          /\ UNCHANGED credentials
    /\ UNCHANGED <<action, config, record, mpc, plan, restart,
                   command_locks, tlock, outcome, written>>
    /\ UNCHANGED unitvars

(* Worker.run: the subprocess is created ... *)
StartWork(t) ==
    /\ MainSuspended
    /\ phase[t] = "ready"
    /\ AtOp(t, "work")
    /\ phase' = [phase EXCEPT ![t] = "run"]
    /\ UNCHANGED <<action, config, record, mpc, plan, restart, ix, exc,
                   command_locks, tlock, credentials, outcome, written>>
    /\ UNCHANGED unitvars

(* ... and exits: with 0, or nonzero and the caller catches the            *)
(* CommandError, or nonzero and it is raised.                              *)
FinishWork(t) ==
    /\ MainSuspended
    /\ Running(t)
    /\ AtOp(t, "work")
    /\ \/ Advance(t, 1, CurOp(t).ret)
       \/ /\ CurOp(t).alt > 0
          /\ Advance(t, CurOp(t).alt, FALSE)
       \/ /\ CurOp(t).fails
          /\ Raise(t, t)
    /\ UNCHANGED <<action, config, record, mpc, plan, restart,
                   command_locks, tlock, credentials, outcome, written>>
    /\ UNCHANGED unitvars

(* System.run_exclusive, up to the acquire.  No await separates the        *)
(* lookup, the creation and the first test of the lock.                    *)
LockMissingAlways(exe) == TRUE

LockMissing(exe) == command_locks[exe] = <<>>

NewLock == [locked |-> FALSE, waiters |-> <<>>]

LocksAfterLookup(exe) ==
    IF LockMissing(exe) THEN Append(command_locks[exe], NewLock)
    ELSE command_locks[exe]

(* asyncio.Lock.acquire returns at once iff the lock is free and nobody    *)
(* waits for it.                                                           *)
LockFree(l) == ~l.locked /\ l.waiters = <<>>

StartExcl(t) ==
    /\ MainSuspended
    /\ phase[t] = "ready"
    /\ AtOp(t, "excl")
    /\ \/ /\ CurOp(t).pre
          /\ Raise(t, t)
          /\ UNCHANGED <<command_locks, tlock>>
       \/ LET exe == CurOp(t).exe
              lks == LocksAfterLookup(exe)
              l == Len(lks)
          IN /\ tlock' = [tlock EXCEPT ![t] = l]
             /\ IF LockFree(lks[l])
                THEN /\ command_locks' =
                            [command_locks EXCEPT ![exe] = [lks EXCEPT ![l].locked = TRUE]]
                     /\ phase' = [phase EXCEPT ![t] = "run"]
                ELSE /\ command_locks' =
                            [command_locks EXCEPT
                                ![exe] = [lks EXCEPT ![l].waiters = Append(@, t)]]
                     /\ phase' = [phase EXCEPT ![t] = "wait"]
             /\ UNCHANGED <<ix, exc>>
    /\ UNCHANGED <<action, config, record, mpc, plan, restart, credentials,
                   outcome, written>>
    /\ UNCHANGED unitvars

(* The first waiter of a released lock takes it. *)
TaskLock(t) == command_locks[CurOp(t).exe][tlock[t]]

Grant(t) ==
    /\ MainSuspended
    /\ phase[t] = "wait"
    /\ ~TaskLock(t).locked
    /\ Head(TaskLock(t).waiters) = t
    /\ command_locks' =
           [command_locks EXCEPT ![CurOp(t).exe][tlock[t]] =
               [locked |-> TRUE, waiters |-> Tail(@.waiters)]]
    /\ phase' = [phase EXCEPT ![t] = "run"]
    /\ UNCHANGED <<action, config, record, mpc, plan, restart, ix, exc,
                   tlock, credentials, outcome, written>>
    /\ UNCHANGED unitvars

ReleasedLocksKept(t) == command_locks

(* The subprocess exits; `async with lock` releases on either way out. *)
ReleasedLocks(t) ==
    [command_locks EXCEPT ![CurOp(t).exe][tlock[t]].locked = FALSE]

FinishExcl(t) ==
    /\ MainSuspended
    /\ Running(t)
    /\ AtOp(t, "excl")
    /\ command_locks' = ReleasedLocks(t)
    /\ tlock' = [tlock EXCEPT ![t] = 0]
    /\ \/ Advance(t, 1, FALSE)
       \/ Raise(t, t)
    /\ UNCHANGED <<action, config, record, mpc, plan, restart, credentials,
                   outcome, written>>
    /\ UNCHANGED unitvars

(* asyncio.gather schedules its coroutines as tasks. *)
Scheduled(kids) == [t \in Tasks |-> IF t \in kids THEN "ready" ELSE phase[t]]

StartGather(t) ==
    /\ MainSuspended
    /\ phase[t] = "ready"
    /\ AtOp(t, "gather")
    /\ phase' = [Scheduled(CurOp(t).kids) EXCEPT ![t] = "await"]
    /\ UNCHANGED <<action, config, record, mpc, plan, restart, ix, exc,
                   command_locks, tlock, credentials, outcome, written>>
    /\ UNCHANGED unitvars

(* gather's future is done when every child has returned ... *)
AllDone(kids) == \A k \in kids : phase[k] = "done"

GatherDone(t) ==
    /\ MainSuspended
    /\ phase[t] = "await"
    /\ AllDone(CurOp(t).kids)
    /\ Advance(t, 1, FALSE)
    /\ UNCHANGED <<action, config, record, mpc, plan, restart,
                   command_locks, tlock, credentials, outcome, written>>
    /\ UNCHANGED unitvars

(* ... or as soon as one child has raised: the awaiting coroutine gets     *)
(* that exception while the other children go on.                          *)
GatherFailed(t) == exc[t] # "none"

GatherRaise(t) ==
    /\ MainSuspended
    /\ phase[t] = "await"
    /\ GatherFailed(t)
    /\ Raise(t, exc[t])
    /\ UNCHANGED <<action, config, record, mpc, plan, restart,
                   command_locks, tlock, credentials, outcome, written>>
    /\ UNCHANGED unitvars

(***************************************************************************)
(* Manager and Plan.execute: the main coroutine                            *)
(***************************************************************************)
Actions == {"prepare", "restore"}

NoExc == [t \in Tasks \cup {"main"} |-> "none"]

NoLocks == [e \in Executables |-> <<>>]

FreshProcess ==
    /\ plan = NoPlan
    /\ restart = FALSE
    /\ phase = Idle
    /\ ix = [t \in Tasks |-> 1]
    /\ exc = NoExc
    /\ command_locks = NoLocks
    /\ tlock = [t \in Tasks |-> 0]
    /\ credentials = FALSE
    /\ outcome = "none"
    /\ written = <<>>

(* Manager._record_runtime_config(status) on the configuration c the       *)
(* Manager holds: status is set, then the whole configuration is written.  *)
RecordRuntimeConfigKeep(c, status) ==
    /\ config' = c
    /\ record' = config'
    /\ written' = Append(written, status)

RecordRuntimeConfig(c, status) ==
    /\ config' = [c EXCEPT !.status = status]
    /\ record' = config'
    /\ written' = Append(written, status)

(* run_prepare: Manager(config), then Manager.prepare ->                   *)
(* _execute("prepare"): the record is written with status provisioning.    *)
PrepareStart ==
    /\ mpc = "start"
    /\ action = "prepare"
    /\ \E c \in SuppliedConfigs : RecordRuntimeConfig(c, "provisioning")
    /\ mpc' = "plan"
    /\ UNCHANGED <<action, plan, restart, phase, ix, exc, command_locks,
                   tlock, credentials, outcome>>
    /\ UNCHANGED unitvars

(* Manager._load_runtime_config: FileNotFoundError without a record, else  *)
(* the record replaces the configuration the Manager holds.                *)
LoadedConfigSupplied(held) == held

LoadedConfig(held) == record

LoadRuntimeConfigDefault(held, next) ==
    /\ config' = IF record = NoRecord THEN held ELSE LoadedConfig(held)
    /\ mpc' = next
    /\ UNCHANGED outcome

LoadRuntimeConfig(held, next) ==
    IF record = NoRecord
    THEN /\ outcome' = "FileNotFoundError"
         /\ mpc' = "finished"
         /\ config' = held
    ELSE /\ config' = LoadedConfig(held)
         /\ mpc' = next
         /\ UNCHANGED outcome

(* run_restore: Manager(config), then Manager.restore loads the record ... *)
RestoreStart ==
    /\ mpc = "start"
    /\ action = "restore"
    /\ \E c \in SuppliedConfigs : LoadRuntimeConfig(c, "load")
    /\ UNCHANGED <<action, record, plan, restart, phase, ix, exc,
                   command_locks, tlock, credentials, written>>
    /\ UNCHANGED unitvars

(* ... and _execute("restore") loads it again. *)
RestoreExecute ==
    /\ mpc = "load"
    /\ LoadRuntimeConfig(config, "plan")
    /\ UNCHANGED <<action, record, plan, restart, phase, ix, exc,
                   command_locks, tlock, credentials, written>>
    /\ UNCHANGED unitvars

(* Plan(self.config, self.system): the providers are constructed (a new    *)
(* Google holds no credentials) and the override is applied to the         *)
(* Manager's own config object.                                            *)
NewPlan ==
    /\ mpc = "plan"
    /\ plan' = BuildPlan(config)
    /\ config' = ApplyDisableJuju(config)
    /\ credentials' = FALSE
    /\ mpc' = "stage1"
    /\ UNCHANGED <<action, record, restart, phase, ix, exc, command_locks,
                   tlock, outcome, written>>
    /\ UNCHANGED unitvars

(* Plan.execute: gather(do_action(snap_handler), do_action(deb_handler)) *)
Stage1 ==
    /\ mpc = "stage1"
    /\ phase' = Scheduled(PackageHandlers)
    /\ mpc' = "gather1"
    /\ UNCHANGED <<action, config, record, plan, restart, ix, exc,
                   command_locks, tlock, credentials, outcome, written>>
    /\ UNCHANGED unitvars

(* The first gather has returned: gather over the provider tasks.  What    *)
(* LXD._workaround_refresh will find is the host's choice.                 *)
Stage1CompleteAny == \E h \in PackageHandlers : phase[h] = "done"

Stage1Settled == \A h \in PackageHandlers : phase[h] \in {"done", "failed"}

Stage1Complete == AllDone(PackageHandlers)

Stage2 ==
    /\ mpc = "gather1"
    /\ Stage1Complete
    /\ phase' = Scheduled(Range(plan.providers))
    /\ restart' \in (IF action = "prepare" /\ "lxd" \in Range(plan.providers)
                      THEN BOOLEAN ELSE {FALSE})
    /\ mpc' = "gather2"
    /\ UNCHANGED <<action, config, record, plan, ix, exc,
                   command_locks, tlock, credentials, outcome, written>>
    /\ UNCHANGED unitvars

(* The second gather has returned: return if Juju is disabled, else        *)
(* await do_action(juju_handler).                                          *)
Stage2Complete == AllDone(Range(plan.providers))

JujuDisabled == config.juju_disable

Stage3 ==
    /\ mpc = "gather2"
    /\ Stage2Complete
    /\ IF JujuDisabled
       THEN /\ mpc' = "ok"
            /\ UNCHANGED phase
       ELSE /\ mpc' = "juju"
            /\ phase' = Scheduled({"juju"})
    /\ UNCHANGED <<action, config, record, plan, restart, ix, exc,
                   command_locks, tlock, credentials, outcome, written>>
    /\ UNCHANGED unitvars

JujuReturned ==
    /\ mpc = "juju"
    /\ phase["juju"] = "done"
    /\ mpc' = "ok"
    /\ UNCHANGED <<action, config, record, plan, restart, phase, ix, exc,
                   command_locks, tlock, credentials, outcome, written>>
    /\ UNCHANGED unitvars

(* An await of Plan.execute raises: the exception leaves execute, and      *)
(* nothing is awaited on its way out of the Manager and of asyncio.run,    *)
(* which cancels the tasks that are still pending.                         *)
ExecuteRaises == MainSuspended /\ GatherFailed("main")

Pending(t) == phase[t] \notin {"idle", "done", "failed"}

CancelAllTasks ==
    /\ phase' = [t \in Tasks |-> IF Pending(t) THEN "cancelled" ELSE phase[t]]
    /\ ix' = [t \in Tasks |-> 1]
    /\ tlock' = [t \in Tasks |-> 0]
    /\ command_locks' =
           [e \in Executables |->
               [i \in 1..Len(command_locks[e]) |-> NewLock]]

(* Manager.prepare, after _execute returned *)
PrepareSucceeded ==
    /\ mpc = "ok"
    /\ action = "prepare"
    /\ RecordRuntimeConfig(config, "succeeded")
    /\ outcome' = "ok"
    /\ mpc' = "finished"
    /\ UNCHANGED <<action, plan, restart, phase, ix, exc, command_locks,
                   tlock, credentials>>
    /\ UNCHANGED unitvars

(* Manager.prepare, except Exception: record failed, then raise *)
PrepareFailedSilent ==
    /\ ExecuteRaises
    /\ action = "prepare"
    /\ outcome' = exc["main"]
    /\ CancelAllTasks
    /\ mpc' = "finished"
    /\ UNCHANGED <<action, config, record, written, plan, restart, exc, credentials>>
    /\ UNCHANGED unitvars

PrepareFailed ==
    /\ ExecuteRaises
    /\ action = "prepare"
    /\ RecordRuntimeConfig(config, "failed")
    /\ outcome' = exc["main"]
    /\ CancelAllTasks
    /\ mpc' = "finished"
    /\ UNCHANGED <<action, plan, restart, exc, credentials>>
    /\ UNCHANGED unitvars

(* Manager.restore returns ... *)
RestoreSucceeded ==
    /\ mpc = "ok"
    /\ action = "restore"
    /\ outcome' = "ok"
    /\ mpc' = "finished"
    /\ UNCHANGED <<action, config, record, plan, restart, phase, ix, exc,
                   command_locks, tlock, credentials, written>>
    /\ UNCHANGED unitvars

RestoreFailedRecorded ==
    /\ ExecuteRaises
    /\ action = "restore"
    /\ RecordRuntimeConfig(config, "failed")
    /\ outcome' = exc["main"]
    /\ CancelAllTasks
    /\ mpc' = "finished"
    /\ UNCHANGED <<action, plan, restart, exc, credentials>>
    /\ UNCHANGED unitvars

(* ... or lets the exception through. *)
RestoreFailed ==
    /\ ExecuteRaises
    /\ action = "restore"
    /\ outcome' = exc["main"]
    /\ CancelAllTasks
    /\ mpc' = "finished"
    /\ UNCHANGED <<action, config, record, plan, restart, exc, credentials,
                   written>>
    /\ UNCHANGED unitvars

(* The process exits; the record stays. *)
Shutdown ==
    /\ mpc = "finished"
    /\ mpc' = "exited"
    /\ action' = "none"
    /\ config' = NoRecord
    /\ plan' = NoPlan
    /\ restart' = FALSE
    /\ phase' = Idle
    /\ ix' = [t \in Tasks |-> 1]
    /\ exc' = NoExc
    /\ command_locks' = NoLocks
    /\ tlock' = [t \in Tasks |-> 0]
    /\ credentials' = FALSE
    /\ outcome' = "none"
    /\ written' = <<>>
    /\ UNCHANGED record
    /\ UNCHANGED unitvars

(* The next CLI invocation: concierge prepare or concierge restore. *)
Invoke ==
    /\ mpc = "exited"
    /\ \E a \in Actions : action' = a
    /\ mpc' = "start"
    /\ UNCHANGED <<config, record, plan, restart, phase, ix, exc,
                   command_locks, tlock, credentials, outcome, written>>
    /\ UNCHANGED unitvars

PlanIdle ==
    /\ mpc = "exited"
    /\ action = "none"
    /\ config = NoRecord
    /\ record = NoRecord
    /\ FreshProcess

Init ==
    /\ PlanIdle
    /\ JujuIdle
    /\ RetryIdle
    /\ SnapdIdle
    /\ DebIdle
    /\ SnapHandlerIdle
    /\ FunctionsIdle

Next ==
    \/ Invoke
    \/ PrepareStart
    \/ RestoreStart
    \/ RestoreExecute
    \/ NewPlan
    \/ Stage1
    \/ Stage2
    \/ Stage3
    \/ JujuReturned
    \/ PrepareSucceeded
    \/ PrepareFailed
    \/ RestoreSucceeded
    \/ RestoreFailed
    \/ Shutdown
    \/ \E t \in Tasks : Return(t)
    \/ \E t \in Tasks : StepIo(t)
    \/ \E t \in Tasks : StartWork(t)
    \/ \E t \in Tasks : FinishWork(t)
    \/ \E t \in Tasks : StartExcl(t)
    \/ \E t \in Tasks : Grant(t)
    \/ \E t \in Tasks : FinishExcl(t)
    \/ \E t \in Tasks : StartGather(t)
    \/ \E t \in Tasks : GatherDone(t)
    \/ \E t \in Tasks : GatherRaise(t)

Spec == Init /\ [][Next]_vars

(***************************************************************************)
(* Properties                                                              *)
(***************************************************************************)
Started(t) == phase[t] # "idle"

Completed(t) == phase[t] = "done"

(* C1: in prepare and in restore alike, no provider (nor a task a provider *)
(* spawns) has started unless the snap and deb handlers have both          *)
(* completed, and the controller handler has started only if moreover      *)
(* every provider of the plan has completed.                               *)
C1_StagesInOrder ==
    /\ \A p \in ProviderNames \cup SubTasks :
          Started(p) => \A h \in PackageHandlers : Completed(h)
    /\ Started("juju") =>
          /\ \A h \in PackageHandlers : Completed(h)
          /\ \A p \in Range(plan.providers) : Completed(p)

C1_JujuRestoreAfterTwoProviders ==
    /\ action = "restore"
    /\ phase["juju"] = "run"
    /\ Len(plan.providers) = 2
    /\ plan.snaps > 0

(* C2: once the snap or the deb handler has failed, no provider and no     *)
(* controller task is ever started, Plan.execute does not get past its     *)
(* first stage, and the invocation ends with that handler's exception.     *)
C2_StageOneFailureStopsPlan ==
    (\E h \in PackageHandlers : phase[h] = "failed") =>
        /\ \A t \in Tasks \ PackageHandlers : ~Started(t)
        /\ mpc \in {"gather1", "finished"}
        /\ mpc = "finished" => outcome \in PackageHandlers

C2_SnapFailedProvidersIdle ==
    /\ action = "prepare"
    /\ mpc = "finished"
    /\ phase["snap"] = "failed"
    /\ outcome = "snap"
    /\ Len(plan.providers) = 2

(* C3: when Plan.execute has surfaced the failure of a provider, every     *)
(* provider of the plan has run to completion (it returned or raised,      *)
(* none was cancelled), and the exception surfaced is that of a provider   *)
(* that failed.                                                            *)
C3_ProvidersRunToCompletion ==
    (mpc = "finished" /\ outcome \in ProviderNames) =>
        /\ \A p \in Range(plan.providers) : phase[p] \in {"done", "failed"}
        /\ phase[outcome] = "failed"

Last(s) == s[Len(s)]

Disabled(c) == c.juju_disable \/ c.disable_juju

C6_ControllerIffEnabled ==
    /\ Started("juju") => ~Disabled(config)
    /\ (mpc = "finished" /\ outcome = "ok") =>
          (Completed("juju") <=> ~Disabled(config))

C6_OverrideSkipsController ==
    /\ action = "prepare"
    /\ mpc = "ok"
    /\ record.disable_juju
    /\ ~record.juju_disable
    /\ ~Started("juju")
    /\ Len(plan.providers) = 2

(* C7: of the run_exclusive calls for one executable at most one has its   *)
(* subprocess running at any time, and never more than one lock exists     *)
(* for an executable, first calls made at the same time included.          *)
Holders(exe) ==
    {t \in Tasks : Running(t) /\ AtOp(t, "excl") /\ CurOp(t).exe = exe}

Waiters(exe) ==
    {t \in Tasks : phase[t] = "wait" /\ CurOp(t).exe = exe}

C7_OneSubprocessPerExecutable ==
    \A exe \in Executables :
        /\ Cardinality(Holders(exe)) <= 1
        /\ Len(command_locks[exe]) <= 1

C7_FirstCallsTogether ==
    /\ plan.snaps = 0
    /\ Holders("snap") = {"microk8s"}
    /\ Waiters("snap") = {"lxd"}
    /\ ix["microk8s"] = 1
    /\ ix["lxd"] = 1
    /\ Len(command_locks["snap"]) = 1

(* C8: at any time of a prepare or a restore at most one subprocess of     *)
(* the snap CLI is running, whichever handler or provider started it.      *)
SnapSubprocesses ==
    {t \in Tasks : Running(t) /\ CurOp(t).exe = "snap"}

C8_OneSnapSubprocess == Cardinality(SnapSubprocesses) <= 1

C8_LXDStartWhileOthersWait ==
    /\ Running("lxd")
    /\ CurOp("lxd").verb = "start"
    /\ Waiters("snap") # {}

(* C9: while a restore executes, its plan is the one built from the        *)
(* persisted record and the Manager holds the record's configuration,      *)
(* whichever configuration the Manager was constructed with.               *)
Executing == mpc \in {"stage1", "gather1", "gather2", "juju", "ok"}

C9_RestorePlanFromRecord ==
    (action = "restore" /\ Executing) =>
        /\ record # NoRecord
        /\ plan = BuildPlan(record)
        /\ config = ApplyDisableJuju(record)

C9_RestoreOfFailedPrepare ==
    /\ action = "restore"
    /\ mpc = "gather2"
    /\ record.status = "failed"
    /\ plan.providers = <<"lxd", "k8s">>
    /\ Running("k8s")

(* C10: a restore without a record ends with FileNotFoundError before any  *)
(* handler is started: no task exists, no plan is built and no record is   *)
(* written.                                                                *)
C10_RestoreWithoutRecord ==
    (action = "restore" /\ record = NoRecord) =>
        /\ \A t \in Tasks : ~Started(t)
        /\ plan = NoPlan
        /\ written = <<>>
        /\ mpc \in {"start", "finished"}
        /\ mpc = "finished" => outcome = "FileNotFoundError"

C10_FileNotFound ==
    /\ action = "restore"
    /\ mpc = "finished"
    /\ outcome = "FileNotFoundError"
    /\ record = NoRecord
    /\ config \in SuppliedConfigs

(***************************************************************************)
(* JujuHandler on its own: prepare and restore of the controller handler,  *)
(* run one after the other against one machine.  The machine is            *)
(* `controllers`; a command's output is a sequence of words.               *)
(***************************************************************************)
MaxBootstrapAttempts == 2

(* stop_after_attempt(10) of _check_bootstrapped.                          *)
CheckAttempts == 10

(* needle in text, for sequences of words.                                 *)
Contains(needle, text) ==
    \E i \in 0..(Len(text) - Len(needle)) :
        SubSeq(text, i + 1, i + Len(needle)) = needle

ControllerName(p) == "concierge-" \o p

Succeeded == [rc |-> 0, output |-> <<>>]

CommandFailed(words) == [rc |-> 1, output |-> words]

(* What `juju show-controller concierge-<p>` can answer on this machine.   *)
ShowController(p) ==
    IF p \in controllers
    THEN {Succeeded, CommandFailed(<<"ERROR", "connection", "refused">>)}
    ELSE {CommandFailed(<<"ERROR", "controller", ControllerName(p), "not", "found">>),
          CommandFailed(<<"ERROR", "connection", "refused">>)}

JujuProviderLists == {<<>>, <<"lxd">>, <<"google">>, <<"lxd", "google">>}

Listed(p) == \E i \in 1..Len(jproviders) : jproviders[i] = p

(* LXD.credentials() returns {}; Google.credentials() returns what         *)
(* Google.prepare stored, {} on a fresh object.                            *)
Credentials == {c \in [JujuProviderNames -> BOOLEAN] : ~c["lxd"]}

ThisRun == [action |-> jaction, ok |-> jout = "ok", boot |-> jboot]

JujuFrame == UNCHANGED <<planvars, retryvars, snapdvars, debvars, snaphvars, funvars>>

(* What a run starts from: a new handler, no command issued yet.           *)
NewRun ==
    /\ jtry' = [p \in JujuProviderNames |-> 0]
    /\ jshow' = [p \in JujuProviderNames |-> NoResult]
    /\ jfound' = [p \in JujuProviderNames |-> "unknown"]
    /\ jissued' = [p \in JujuProviderNames |-> {}]
    /\ jdone' = [p \in JujuProviderNames |-> {}]
    /\ jboot' = [p \in JujuProviderNames |-> 0]
    /\ jremoved' = {}
    /\ jmade' = <<>>
    /\ jout' = "none"

(* do_action constructs the handler and calls prepare: _install first.     *)
JPrepare ==
    /\ jh = "finished"
    /\ jaction' = "prepare"
    /\ jh' = "install"
    /\ jprev' = ThisRun
    /\ \E c \in Credentials : jcreds' = c
    /\ jpc' = [p \in JujuProviderNames |-> "idle"]
    /\ NewRun
    /\ UNCHANGED <<jproviders, jbootstrap, controllers, models>>
    /\ JujuFrame

(* _install: SnapHandler(system, [juju]).prepare().                        *)
JInstall ==
    /\ jh = "install"
    /\ \/ /\ jh' = "mkdir"
          /\ jmade' = Append(jmade, "snap")
          /\ UNCHANGED jout
       \/ /\ jh' = "finished"
          /\ jout' = "CommandError"
          /\ UNCHANGED jmade
    /\ UNCHANGED <<jaction, jproviders, jbootstrap, jcreds, controllers, models, jpc,
                   jtry, jshow, jfound, jissued, jdone, jboot, jremoved, jprev>>
    /\ JujuFrame

(* mk_home_subdir(".local/share/juju")                                     *)
JMakeDataDir ==
    /\ jh = "mkdir"
    /\ \/ /\ jh' = "credentials"
          /\ jmade' = Append(jmade, "dir")
          /\ UNCHANGED jout
       \/ /\ jh' = "finished"
          /\ jout' = "OSError"
          /\ UNCHANGED jmade
    /\ UNCHANGED <<jaction, jproviders, jbootstrap, jcreds, controllers, models, jpc,
                   jtry, jshow, jfound, jissued, jdone, jboot, jremoved, jprev>>
    /\ JujuFrame

CredentialsToWriteNever == FALSE

(* `if not credentials_data["credentials"]: return`                        *)
CredentialsToWrite ==
    \E p \in JujuProviderNames : Listed(p) /\ jcreds[p]

BootstrapWantedAlways(p) == TRUE

(* `if not provider.bootstrap(): return`                                   *)
BootstrapWanted(p) == jbootstrap[p]

(* _write_credentials, then _bootstrap creates one _bootstrap_provider per *)
(* provider, which returns at once when provider.bootstrap() is false.     *)
JWriteCredentials ==
    /\ jh = "credentials"
    /\ \/ /\ jh' = "bootstrap"
          /\ jmade' = IF CredentialsToWrite
                      THEN Append(jmade, "credentials") ELSE jmade
          /\ jpc' = [p \in JujuProviderNames |->
                        IF ~Listed(p) THEN "idle"
                        ELSE IF BootstrapWanted(p) THEN "probe" ELSE "done"]
          /\ jtry' = [p \in JujuProviderNames |->
                        IF Listed(p) /\ BootstrapWanted(p) THEN 1 ELSE 0]
          /\ UNCHANGED jout
       \/ /\ CredentialsToWrite
          /\ jh' = "finished"
          /\ jout' = "OSError"
          /\ UNCHANGED <<jpc, jtry, jmade>>
    /\ UNCHANGED <<jaction, jproviders, jbootstrap, jcreds, controllers, models, jshow,
                   jfound, jissued, jdone, jboot, jremoved, jprev>>
    /\ JujuFrame

ControllerNotFoundAlways(name, output) == TRUE

ControllerNotFound(name, output) ==
    Contains(<<"controller", name, "not", "found">>, output)

AfterCheckAlwaysBootstrap(found) == "bootstrap"

(* _bootstrap_provider after _check_bootstrapped returned.                 *)
AfterCheckPrepare(found) == IF found THEN "done" ELSE "bootstrap"

(* _kill_provider after _check_bootstrapped returned.                      *)
AfterCheckRestore(found) == IF found THEN "kill" ELSE "done"

CheckReturns(p, found) ==
    /\ jfound' = [jfound EXCEPT ![p] = IF found THEN "true" ELSE "false"]
    /\ jpc' = [jpc EXCEPT ![p] = IF jaction = "prepare"
                                 THEN AfterCheckPrepare(found)
                                 ELSE AfterCheckRestore(found)]
    /\ jtry' = [jtry EXCEPT ![p] = 1]

CheckRaises(p) ==
    /\ jfound' = [jfound EXCEPT ![p] = "raised"]
    /\ jpc' = [jpc EXCEPT ![p] = "failed"]
    /\ jtry' = [jtry EXCEPT ![p] = 0]

(* _check_bootstrapped, one show-controller at a time: CheckAttempts       *)
(* attempts that are retried on CommandError, then the terminal one,       *)
(* whose output decides.                                                   *)
JShowController(p) ==
    /\ jh \in {"bootstrap", "kills"}
    /\ jpc[p] = "probe"
    /\ \E r \in ShowController(p) :
        /\ jshow' = [jshow EXCEPT ![p] = r]
        /\ IF r.rc = 0
           THEN CheckReturns(p, TRUE)
           ELSE IF jtry[p] <= CheckAttempts
           THEN /\ jtry' = [jtry EXCEPT ![p] = @ + 1]
                /\ UNCHANGED <<jfound, jpc>>
           ELSE IF ControllerNotFound(ControllerName(p), r.output)
           THEN CheckReturns(p, FALSE)
           ELSE CheckRaises(p)
    /\ jissued' = [jissued EXCEPT ![p] = @ \cup {"show-controller"}]
    /\ UNCHANGED <<jaction, jproviders, jbootstrap, jcreds, controllers, models, jh,
                   jdone, jboot, jremoved, jmade, jprev, jout>>
    /\ JujuFrame

(* run_with_retries starts an attempt of `juju bootstrap`.                 *)
JBootstrapStarts(p) ==
    /\ jh = "bootstrap"
    /\ jpc[p] = "bootstrap"
    /\ jpc' = [jpc EXCEPT ![p] = "bootstrapping"]
    /\ jissued' = [jissued EXCEPT ![p] = @ \cup {"bootstrap"}]
    /\ jboot' = [jboot EXCEPT ![p] = @ + 1]
    /\ UNCHANGED <<jaction, jproviders, jbootstrap, jcreds, controllers, models, jh,
                   jtry, jshow, jfound, jdone, jremoved, jmade, jprev, jout>>
    /\ JujuFrame

AfterBootstrapAlwaysModel(ok, again) == "addmodel"

(* _bootstrap_provider after the attempt: add-model follows a success; a   *)
(* failed attempt is retried or, the deadline reached, raised.             *)
AfterBootstrap(ok, again) ==
    IF ok THEN "addmodel" ELSE IF again THEN "bootstrap" ELSE "failed"

(* The attempt ends: exit 0, or a CommandError or a timeout, after which   *)
(* run_with_retries starts another attempt unless its deadline is reached. *)
JBootstrapEnds(p) ==
    /\ jh = "bootstrap"
    /\ jpc[p] = "bootstrapping"
    /\ \E ok \in BOOLEAN :
       \E again \in IF ~ok /\ jtry[p] < MaxBootstrapAttempts
                    THEN BOOLEAN ELSE {FALSE} :
        /\ jpc' = [jpc EXCEPT ![p] = AfterBootstrap(ok, again)]
        /\ jtry' = [jtry EXCEPT ![p] = IF ok \/ ~again THEN 1 ELSE @ + 1]
        /\ controllers' = IF ok THEN controllers \cup {p} ELSE controllers
        /\ UNCHANGED models
        /\ jdone' = IF ok THEN [jdone EXCEPT ![p] = @ \cup {"bootstrap"}]
                    ELSE jdone
    /\ UNCHANGED <<jaction, jproviders, jbootstrap, jcreds, jh, jshow, jfound,
                   jissued, jboot, jremoved, jmade, jprev, jout>>
    /\ JujuFrame

(* `juju add-model -c concierge-<p> testing`, run once.                    *)
JAddModel(p) ==
    /\ jh = "bootstrap"
    /\ jpc[p] = "addmodel"
    /\ jissued' = [jissued EXCEPT ![p] = @ \cup {"add-model"}]
    /\ \/ /\ jpc' = [jpc EXCEPT ![p] = "done"]
          /\ jdone' = [jdone EXCEPT ![p] = @ \cup {"add-model"}]
          /\ models' = models \cup {p}
       \/ /\ jpc' = [jpc EXCEPT ![p] = "failed"]
          /\ UNCHANGED <<jdone, models>>
    /\ UNCHANGED <<jaction, jproviders, jbootstrap, jcreds, controllers, jh,
                   jtry, jshow, jfound, jboot, jremoved, jmade, jprev, jout>>
    /\ JujuFrame

JPending(p) == jpc[p] \in {"probe", "bootstrap", "bootstrapping", "addmodel"}

(* asyncio.gather returned: every _bootstrap_provider returned.            *)
JPrepared ==
    /\ jh = "bootstrap"
    /\ \A p \in JujuProviderNames : jpc[p] \in {"idle", "done"}
    /\ jh' = "finished"
    /\ jout' = "ok"
    /\ UNCHANGED <<jaction, jproviders, jbootstrap, jcreds, controllers, models, jpc,
                   jtry, jshow, jfound, jissued, jdone, jboot, jremoved, jmade, jprev>>
    /\ JujuFrame

(* asyncio.gather raises the first exception; the exception leaves the     *)
(* program and asyncio.run cancels the tasks that are left.                *)
JPrepareRaises ==
    /\ jh = "bootstrap"
    /\ \E p \in JujuProviderNames : jpc[p] = "failed"
    /\ jh' = "finished"
    /\ jout' = "CommandError"
    /\ jpc' = [p \in JujuProviderNames |->
                  IF JPending(p) THEN "cancelled" ELSE jpc[p]]
    /\ UNCHANGED <<jaction, jproviders, jbootstrap, jcreds, controllers, models, jtry,
                   jshow, jfound, jissued, jdone, jboot, jremoved, jmade, jprev>>
    /\ JujuFrame

(* do_action constructs the handler and calls restore.                     *)
JRestore ==
    /\ jh = "finished"
    /\ jaction' = "restore"
    /\ jh' = "kills"
    /\ jprev' = ThisRun
    /\ \E c \in Credentials : jcreds' = c
    /\ jpc' = [p \in JujuProviderNames |->
                  IF Listed(p) THEN "waiting" ELSE "idle"]
    /\ NewRun
    /\ UNCHANGED <<jproviders, jbootstrap, controllers, models>>
    /\ JujuFrame

JActive(p) == jpc[p] \in {"probe", "kill"}

SkippedNever(p) == FALSE

(* `if not provider.credentials(): continue`                               *)
Skipped(p) == ~jcreds[p]

(* The for loop of restore takes the next provider.                        *)
JNextProvider ==
    /\ jh = "kills"
    /\ \A q \in JujuProviderNames : ~JActive(q) /\ jpc[q] # "failed"
    /\ \E i \in 1..Len(jproviders) :
        /\ jpc[jproviders[i]] = "waiting"
        /\ \A k \in 1..(i - 1) : jpc[jproviders[k]] # "waiting"
        /\ jpc' = [jpc EXCEPT ![jproviders[i]] =
                      IF Skipped(jproviders[i]) THEN "skipped" ELSE "probe"]
        /\ jtry' = [jtry EXCEPT ![jproviders[i]] =
                      IF Skipped(jproviders[i]) THEN 0 ELSE 1]
    /\ UNCHANGED <<jaction, jproviders, jbootstrap, jcreds, controllers, models, jh,
                   jshow, jfound, jissued, jdone, jboot, jremoved, jmade, jprev, jout>>
    /\ JujuFrame

(* `juju kill-controller --verbose --no-prompt concierge-<p>`, run once.   *)
JKillController(p) ==
    /\ jh = "kills"
    /\ jpc[p] = "kill"
    /\ jissued' = [jissued EXCEPT ![p] = @ \cup {"kill-controller"}]
    /\ \/ /\ jpc' = [jpc EXCEPT ![p] = "done"]
          /\ jdone' = [jdone EXCEPT ![p] = @ \cup {"kill-controller"}]
          /\ controllers' = controllers \ {p}
          /\ models' = models \ {p}
       \/ /\ jpc' = [jpc EXCEPT ![p] = "failed"]
          /\ UNCHANGED <<jdone, controllers, models>>
    /\ UNCHANGED <<jaction, jproviders, jbootstrap, jcreds, jh, jtry, jshow,
                   jfound, jboot, jremoved, jmade, jprev, jout>>
    /\ JujuFrame

(* _kill_provider raised: restore ends there.                              *)
JRestoreRaises ==
    /\ jh = "kills"
    /\ \E p \in JujuProviderNames : jpc[p] = "failed"
    /\ jh' = "finished"
    /\ jout' = "CommandError"
    /\ UNCHANGED <<jaction, jproviders, jbootstrap, jcreds, controllers, models, jpc,
                   jtry, jshow, jfound, jissued, jdone, jboot, jremoved, jmade, jprev>>
    /\ JujuFrame

LoopOver ==
    \A p \in JujuProviderNames : jpc[p] \in {"idle", "skipped", "done"}

(* remove_all_home(".local/share/juju") after the loop.                    *)
JRemoveData ==
    /\ jh = "kills"
    /\ LoopOver
    /\ \/ /\ jh' = "rmsnap"
          /\ jremoved' = jremoved \cup {"data"}
          /\ UNCHANGED jout
       \/ /\ jh' = "finished"
          /\ jout' = "OSError"
          /\ UNCHANGED jremoved
    /\ UNCHANGED <<jaction, jproviders, jbootstrap, jcreds, controllers, models, jpc,
                   jtry, jshow, jfound, jissued, jdone, jboot, jprev>>
    /\ UNCHANGED jmade
    /\ JujuFrame

(* SnapHandler(system, [juju]).restore() last.                             *)
JRemoveSnap ==
    /\ jh = "rmsnap"
    /\ jh' = "finished"
    /\ \/ /\ jremoved' = jremoved \cup {"snap"}
          /\ jout' = "ok"
       \/ /\ jout' = "CommandError"
          /\ UNCHANGED jremoved
    /\ UNCHANGED <<jaction, jproviders, jbootstrap, jcreds, controllers, models, jpc,
                   jtry, jshow, jfound, jissued, jdone, jboot, jprev>>
    /\ UNCHANGED jmade
    /\ JujuFrame

JujuInit ==
    /\ PlanIdle
    /\ RetryIdle
    /\ SnapdIdle
    /\ DebIdle
    /\ SnapHandlerIdle
    /\ FunctionsIdle
    /\ jaction = "none"
    /\ jproviders \in JujuProviderLists
    /\ jbootstrap \in [JujuProviderNames -> BOOLEAN]
    /\ jcreds = [p \in JujuProviderNames |-> FALSE]
    /\ controllers \in SUBSET JujuProviderNames
    /\ models = controllers
    /\ jh = "finished"
    /\ jprev = NoRun
    /\ JujuFresh

JujuNext ==
    \/ JPrepare
    \/ JInstall
    \/ JMakeDataDir
    \/ JWriteCredentials
    \/ \E p \in JujuProviderNames : JShowController(p)
    \/ \E p \in JujuProviderNames : JBootstrapStarts(p)
    \/ \E p \in JujuProviderNames : JBootstrapEnds(p)
    \/ \E p \in JujuProviderNames : JAddModel(p)
    \/ JPrepared
    \/ JPrepareRaises
    \/ JRestore
    \/ JNextProvider
    \/ \E p \in JujuProviderNames : JKillController(p)
    \/ JRestoreRaises
    \/ JRemoveData
    \/ JRemoveSnap

JujuSpec == JujuInit /\ [][JujuNext]_vars

(***************************************************************************)
(* Properties of JujuHandler                                               *)
(***************************************************************************)
AfterSucceededPrepare ==
    jaction = "prepare" /\ jprev.action = "prepare" /\ jprev.ok

(* C11: in a prepare, a provider whose show-controller succeeded gets no   *)
(* bootstrap and no add-model command; and a prepare that follows a        *)
(* prepare that succeeded, with the same providers and bootstrap flags,    *)
(* starts no bootstrap command at all.                                     *)
C11_NoBootstrapWhenControllerShown ==
    /\ \A p \in JujuProviderNames :
        (jaction = "prepare" /\ jfound[p] = "true") =>
            jissued[p] \cap {"bootstrap", "add-model"} = {}
    /\ AfterSucceededPrepare =>
        \A p \in JujuProviderNames : jboot[p] = 0

(* C11 as stated: over the two prepares, a provider's bootstrap command is *)
(* started at most once.                                                   *)
C11_BootstrapIssuedAtMostOnce ==
    /\ \A p \in JujuProviderNames :
        (jaction = "prepare" /\ jfound[p] = "true") =>
            jissued[p] \cap {"bootstrap", "add-model"} = {}
    /\ AfterSucceededPrepare =>
        \A p \in JujuProviderNames : jprev.boot[p] + jboot[p] <= 1

C11_SecondPrepareFindsController ==
    /\ AfterSucceededPrepare
    /\ jprev.boot["lxd"] >= 1
    /\ jfound["lxd"] = "true"
    /\ jpc["lxd"] = "done"
    /\ jout = "ok"

Needle(p) == <<"controller", ControllerName(p), "not", "found">>

(* C12: _check_bootstrapped answers False exactly when its terminal        *)
(* show-controller (the one after the CheckAttempts retried ones) failed   *)
(* with `controller <name> not found` in its output, and True exactly when *)
(* a show-controller succeeded; another terminal failure is raised, and    *)
(* the provider then gets no bootstrap, add-model or kill-controller.      *)
C12_CheckFollowsTerminalOutput ==
    /\ [](\A p \in JujuProviderNames :
            /\ jfound[p] = "true" <=>
                  (jfound[p] # "unknown" /\ jshow[p].rc = 0)
            /\ jfound[p] = "false" <=>
                  /\ jfound[p] # "unknown"
                  /\ jshow[p].rc # 0
                  /\ Contains(Needle(p), jshow[p].output)
            /\ jfound[p] = "raised" =>
                  /\ jissued[p] = {"show-controller"}
                  /\ jpc[p] = "failed")
    /\ [][\A p \in JujuProviderNames :
            (jfound[p] = "unknown" /\ jfound'[p] \in {"false", "raised"}) =>
                jtry[p] = CheckAttempts + 1]_vars

C12_OtherTerminalFailureRaised ==
    /\ jaction = "restore"
    /\ jcreds["google"]
    /\ "google" \in controllers
    /\ jfound["google"] = "raised"
    /\ jshow["google"] = CommandFailed(<<"ERROR", "connection", "refused">>)
    /\ jout = "CommandError"
    /\ jremoved = {}

(* C13: a provider's add-model is issued only after a bootstrap command of *)
(* that provider exited 0 in the same prepare, never after its bootstrap   *)
(* failed; the providers' bootstraps run interleaved.                      *)
C13_AddModelAfterOwnBootstrap ==
    \A p \in JujuProviderNames :
        /\ "add-model" \in jissued[p] => "bootstrap" \in jdone[p]
        /\ jpc[p] = "addmodel" => "bootstrap" \in jdone[p]

C13_GoogleDoneWhileLXDRetries ==
    /\ jh = "bootstrap"
    /\ jpc["lxd"] = "bootstrapping"
    /\ jboot["lxd"] = 2
    /\ jboot["google"] = 1
    /\ "add-model" \in jdone["google"]

LoopPassed(p) == jpc[p] \in {"skipped", "done", "failed"}

(* C14: in restore, kill-controller is issued for a provider exactly when  *)
(* its credentials() is non-empty and the check answered that its          *)
(* controller exists; the data directory is removed only after every such  *)
(* kill-controller exited 0, and the juju snap only after the data         *)
(* directory.                                                              *)
C14_KillThenDataThenSnap ==
    jaction = "restore" =>
        /\ \A p \in JujuProviderNames :
            /\ "kill-controller" \in jissued[p] =>
                  jcreds[p] /\ jfound[p] = "true"
            /\ (LoopPassed(p) /\ jcreds[p] /\ jfound[p] = "true") =>
                  "kill-controller" \in jissued[p]
            /\ "data" \in jremoved =>
                  /\ ~JActive(p) /\ jpc[p] # "waiting"
                  /\ "kill-controller" \in jissued[p] =>
                        "kill-controller" \in jdone[p]
        /\ "snap" \in jremoved => "data" \in jremoved

C14_GoogleKilledLXDSkipped ==
    /\ jaction = "restore"
    /\ jproviders = <<"lxd", "google">>
    /\ jpc["lxd"] = "skipped"
    /\ "kill-controller" \in jdone["google"]
    /\ "lxd" \in controllers
    /\ jremoved = {"data", "snap"}
    /\ jout = "ok"

(* C15: a restore that follows a successful prepare which bootstrapped the *)
(* LXD controller issues kill-controller for concierge-lxd before it       *)
(* removes the data directory and the juju snap.                           *)
C15_RestoreKillsLXDController ==
    ( /\ jaction = "restore"
      /\ jprev.action = "prepare" /\ jprev.ok
      /\ "lxd" \in controllers
      /\ jprev.boot["lxd"] >= 1
      /\ jremoved # {} ) =>
        "kill-controller" \in jissued["lxd"]

(***************************************************************************)
(* System.run_with_retries on its own.  Time is counted in whole seconds;  *)
(* max_duration is a multiple of ten seconds, so that the per-attempt      *)
(* timeout max_duration_sec * 0.9 is a whole number.                       *)
(***************************************************************************)
MaxDurationTens == 2

Durations == {10 * k : k \in 1..MaxDurationTens}

(* per_attempt_timeout = max_duration_sec * 0.9                            *)
PerAttemptTimeout(d) == (d * 9) \div 10

RECURSIVE Pow2(_)
Pow2(n) == IF n = 0 THEN 1 ELSE 2 * Pow2(n - 1)

Min(a, b) == IF a < b THEN a ELSE b

Max(a, b) == IF a > b THEN a ELSE b

(* wait_exponential(multiplier=1, min=1, max=60) after attempt n.          *)
WaitExponential(n) == Max(1, Min(Pow2(n - 1), 60))

(* stop_after_delay(max_duration_sec), asked when an attempt has failed.   *)
StopAfterDelay == rnow >= rmax

CommandError(returncode, output) ==
    [type |-> "CommandError", returncode |-> returncode, output |-> output]

ReturnCodes == {1, 2}

RaisedAsIs(e) == e

(* reraise=True hands the last attempt's exception to run_with_retries,    *)
(* whose `except TimeoutError` turns a timeout into a CommandError.        *)
Raised(e) ==
    IF e.type = "TimeoutError"
    THEN CommandError(-1, "Command timed out")
    ELSE e

RetryFrame == UNCHANGED <<planvars, jujuvars, snapdvars, debvars, snaphvars, funvars>>

(* The call: the first attempt starts at once.                             *)
RCall ==
    /\ rpc \in {"idle", "returned", "raised"}
    /\ \E d \in Durations : rmax' = d
    /\ rpc' = "running"
    /\ rnow' = 0
    /\ rstart' = 0
    /\ rwake' = 0
    /\ rattempt' = 1
    /\ rlast' = NoOutcome
    /\ rresult' = NoOutcome
    /\ RetryFrame

(* A second passes, while the command runs or the backoff sleep lasts.     *)
RTick ==
    /\ \/ rpc = "running" /\ rnow - rstart < PerAttemptTimeout(rmax)
       \/ rpc = "waiting" /\ rnow < rwake
    /\ rnow' = rnow + 1
    /\ UNCHANGED <<rpc, rmax, rstart, rwake, rattempt, rlast, rresult>>
    /\ RetryFrame

(* The command exits 0: run returns its output and so does the call.       *)
RExitsZero ==
    /\ rpc = "running"
    /\ rnow - rstart < PerAttemptTimeout(rmax)
    /\ rlast' = [type |-> "ok", output |-> "stdout"]
    /\ rresult' = rlast'
    /\ rpc' = "returned"
    /\ UNCHANGED <<rmax, rnow, rstart, rwake, rattempt>>
    /\ RetryFrame

(* After an attempt that failed with e, an exception of a retried type:    *)
(* stop, or sleep and try again.                                           *)
AfterFailure(e) ==
    /\ rlast' = e
    /\ IF StopAfterDelay
       THEN /\ rpc' = "raised"
            /\ rresult' = Raised(e)
            /\ UNCHANGED rwake
       ELSE /\ rpc' = "waiting"
            /\ rwake' = rnow + WaitExponential(rattempt)
            /\ UNCHANGED rresult
    /\ UNCHANGED <<rmax, rnow, rstart, rattempt>>

(* The command exits nonzero: run raises CommandError.                     *)
RExitsNonzero ==
    /\ rpc = "running"
    /\ rnow - rstart < PerAttemptTimeout(rmax)
    /\ \E rc \in ReturnCodes : AfterFailure(CommandError(rc, "output"))
    /\ RetryFrame

(* asyncio.wait_for gives up on the attempt.                               *)
RTimesOut ==
    /\ rpc = "running"
    /\ rnow - rstart = PerAttemptTimeout(rmax)
    /\ AfterFailure([type |-> "TimeoutError"])
    /\ RetryFrame

(* run raises something else (the shell cannot be started): not retried.   *)
RRaisesOther ==
    /\ rpc = "running"
    /\ rnow - rstart < PerAttemptTimeout(rmax)
    /\ rlast' = [type |-> "OSError"]
    /\ rresult' = rlast'
    /\ rpc' = "raised"
    /\ UNCHANGED <<rmax, rnow, rstart, rwake, rattempt>>
    /\ RetryFrame

(* The sleep is over: the next attempt starts.                             *)
RNextAttempt ==
    /\ rpc = "waiting"
    /\ rnow = rwake
    /\ rpc' = "running"
    /\ rstart' = rnow
    /\ rattempt' = rattempt + 1
    /\ UNCHANGED <<rmax, rnow, rwake, rlast, rresult>>
    /\ RetryFrame

RetryInit ==
    /\ PlanIdle
    /\ JujuIdle
    /\ RetryIdle
    /\ SnapdIdle
    /\ DebIdle
    /\ SnapHandlerIdle
    /\ FunctionsIdle

RetryNext ==
    \/ RCall
    \/ RTick
    \/ RExitsZero
    \/ RExitsNonzero
    \/ RTimesOut
    \/ RRaisesOther
    \/ RNextAttempt

RetrySpec == RetryInit /\ [][RetryNext]_vars

(***************************************************************************)
(* Properties of run_with_retries                                          *)
(***************************************************************************)
Retried == {"CommandError", "TimeoutError"}

(* C16: another attempt follows only a CommandError or a timeout; the      *)
(* first attempt that exits 0 ends the call with its output; and no        *)
(* attempt starts after max_duration has elapsed since the call.           *)
C16_NoAttemptAfterMaxDuration ==
    /\ (rpc = "waiting" \/ (rpc = "running" /\ rattempt > 1)) =>
           rlast.type \in Retried
    /\ rlast.type = "OSError" => (rpc = "raised" /\ rresult = rlast)
    /\ rlast.type = "ok" => (rpc = "returned" /\ rresult = rlast)
    /\ rpc = "running" => rstart <= rmax

(* C17: the call is over within max_duration: attempts and sleeps together *)
(* never last longer, and no attempt lasts longer than 0.9 * max_duration. *)
C17_CallEndsWithinMaxDuration ==
    /\ rnow <= rmax
    /\ rpc = "running" => rnow - rstart <= PerAttemptTimeout(rmax)

(* C18: when the call raises after an attempt that failed with a retried   *)
(* exception, it raises that last attempt's CommandError unchanged, or     *)
(* CommandError(-1, "Command timed out") when the last attempt timed out;  *)
(* it never raises a TimeoutError or a RetryError.                         *)
C18_RaisesLastAttemptsError ==
    rpc = "raised" =>
        /\ rlast.type = "CommandError" => rresult = rlast
        /\ rlast.type = "TimeoutError" =>
              rresult = CommandError(-1, "Command timed out")
        /\ rresult.type \notin {"TimeoutError", "RetryError", "none"}
        /\ rlast.type \in Retried => StopAfterDelay

C18_TimedOutOnThirdAttempt ==
    /\ rpc = "raised"
    /\ rattempt = 3
    /\ rlast.type = "TimeoutError"
    /\ rresult = CommandError(-1, "Command timed out")

(***************************************************************************)
(* SnapdClient on its own.  The text of an exception is a sequence of      *)
(* words.                                                                  *)
(***************************************************************************)
(* stop_after_attempt(10) of _with_retry.                                  *)
RequestAttempts == 10

(* str.lower(), word by word.                                              *)
LowerWord(w) ==
    CASE w = "Snapd" -> "snapd"
      [] w = "Snap" -> "snap"
      [] w = "API" -> "api"
      [] w = "Unknown" -> "unknown"
      [] w = "Invalid" -> "invalid"
      [] w = "Cannot" -> "cannot"
      [] OTHER -> w

Lower(text) == [i \in 1..Len(text) |-> LowerWord(text[i])]

(* FileNotFoundError(f"Snapd socket not found at {self.socket_path}")      *)
SocketNotFound == <<"Snapd", "socket", "not", "found", "at", "/run/snapd.socket">>

(* Exception(f"Snapd API error: {error_msg}")                              *)
ApiError(message) == <<"Snapd", "API", "error:">> \o message

(* ValueError(f"Snap '{snap_name}' not found in store")                    *)
NotInStore == <<"Snap", "'juju'", "not", "found", "in", "store">>

(* What aiohttp raises when snapd does not answer.                         *)
CannotConnect == <<"Cannot", "connect", "to", "host">>

(* The errors an attempt of request r can end with.                        *)
AttemptErrors(r) ==
    IF ~socket THEN {SocketNotFound}
    ELSE IF r = "get"
    THEN {ApiError(<<"snap", "not", "installed">>),
          ApiError(<<"Invalid", "snap", "name">>),
          ApiError(<<"Unknown", "error">>),
          CannotConnect}
    ELSE {NotInStore,
          ApiError(<<"snap", "not", "available">>),
          ApiError(<<"Unknown", "error">>),
          CannotConnect}

PermanentErrors ==
    {<<"snap", "not", "installed">>, <<"not", "found">>,
     <<"snap", "not", "available">>, <<"invalid">>}

ShouldRetryAlways(error) == TRUE

(* should_retry of _with_retry, for an attempt that raised error.          *)
ShouldRetry(error) ==
    ~(\E msg \in PermanentErrors : Contains(msg, Lower(error)))

(* The except clause of _snap_installed_info.                              *)
MeansNotInstalled(error) ==
    \/ Contains(<<"snap", "not", "installed">>, Lower(error))
    \/ Contains(<<"not", "found">>, Lower(error))

SnapdFrame == UNCHANGED <<planvars, jujuvars, retryvars, debvars, snaphvars, funvars>>

NewCall ==
    /\ socket' \in BOOLEAN
    /\ satt' = NoAttempts
    /\ slast' = NoOutcomes
    /\ sexc' = NoErrors
    /\ sinstalled' = FALSE
    /\ sresult' = NoOutcome

(* snap_info: _snap_installed_info asks for the installed snap first.      *)
SSnapInfo ==
    /\ spc \in {"idle", "returned", "raised"}
    /\ scall' = "snap_info"
    /\ spc' = "get"
    /\ NewCall
    /\ SnapdFrame

(* snap_channels: _find_snap asks the store.                               *)
SSnapChannels ==
    /\ spc \in {"idle", "returned", "raised"}
    /\ scall' = "snap_channels"
    /\ spc' = "find"
    /\ NewCall
    /\ SnapdFrame

(* An attempt of the request in progress gets its answer: _with_retry      *)
(* returns it, and the caller goes on.                                     *)
SAttemptSucceeds ==
    /\ spc \in Requests
    /\ socket
    /\ satt' = [satt EXCEPT ![spc] = @ + 1]
    /\ IF spc = "get"
       THEN \E status \in {"active", "installed"} :
              /\ slast' = [slast EXCEPT ![spc] = [type |-> "ok", status |-> status]]
              /\ sinstalled' = (status = "active")
              /\ spc' = "find"
              /\ UNCHANGED sresult
       ELSE \E confinement \in {"classic", "strict"} :
              /\ slast' = [slast EXCEPT ![spc] =
                              [type |-> "ok", confinement |-> confinement]]
              /\ spc' = "returned"
              /\ sresult' = IF scall = "snap_info"
                            THEN [type |-> "SnapInfo", installed |-> sinstalled,
                                  classic |-> (confinement = "classic")]
                            ELSE [type |-> "channels"]
              /\ UNCHANGED sinstalled
    /\ UNCHANGED <<scall, socket, sexc>>
    /\ SnapdFrame

(* _with_retry raised error out of request spc: what its caller does.      *)
RequestRaised(error) ==
    /\ sexc' = [sexc EXCEPT ![spc] = error]
    /\ IF spc = "get"
       THEN IF MeansNotInstalled(error)
            THEN /\ spc' = "find"
                 /\ sinstalled' = FALSE
                 /\ UNCHANGED sresult
            ELSE /\ spc' = "raised"
                 /\ sresult' = [type |-> "error", text |-> error]
                 /\ UNCHANGED sinstalled
       ELSE IF scall = "snap_info"
            THEN /\ spc' = "returned"
                 /\ sresult' = [type |-> "SnapInfo", installed |-> sinstalled,
                                classic |-> FALSE]
                 /\ UNCHANGED sinstalled
            ELSE /\ spc' = "raised"
                 /\ sresult' = [type |-> "error", text |-> error]
                 /\ UNCHANGED sinstalled

(* An attempt of the request in progress raises: _with_retry tries again,  *)
(* or raises the error when should_retry says no or the attempts are used  *)
(* up.                                                                     *)
SAttemptFails ==
    /\ spc \in Requests
    /\ \E error \in AttemptErrors(spc) :
        /\ satt' = [satt EXCEPT ![spc] = @ + 1]
        /\ slast' = [slast EXCEPT ![spc] = [type |-> "error", text |-> error]]
        /\ IF ShouldRetry(error) /\ satt[spc] + 1 < RequestAttempts
           THEN UNCHANGED <<spc, sexc, sinstalled, sresult>>
           ELSE RequestRaised(error)
    /\ UNCHANGED <<scall, socket>>
    /\ SnapdFrame

SnapdInit ==
    /\ PlanIdle
    /\ JujuIdle
    /\ RetryIdle
    /\ SnapdIdle
    /\ DebIdle
    /\ SnapHandlerIdle
    /\ FunctionsIdle

SnapdNext ==
    \/ SSnapInfo
    \/ SSnapChannels
    \/ SAttemptSucceeds
    \/ SAttemptFails

SnapdSpec == SnapdInit /\ [][SnapdNext]_vars

(***************************************************************************)
(* Properties of SnapdClient                                               *)
(***************************************************************************)
Permanent(text) ==
    \/ Contains(<<"snap", "not", "installed">>, Lower(text))
    \/ Contains(<<"not", "found">>, Lower(text))
    \/ Contains(<<"snap", "not", "available">>, Lower(text))
    \/ Contains(<<"invalid">>, Lower(text))

Failed(r) == slast[r].type = "error"

(* C19: a request is attempted at most RequestAttempts times; an attempt   *)
(* that raises a permanent error ends the request with that error; one     *)
(* that raises another error is followed by a further attempt unless it    *)
(* was the last allowed, and then its error is raised; an attempt that     *)
(* succeeds ends the request.                                              *)
C19_RetriedUnlessPermanent ==
    \A r \in Requests :
        /\ satt[r] <= RequestAttempts
        /\ (Failed(r) /\ Permanent(slast[r].text)) =>
              (spc # r /\ sexc[r] = slast[r].text)
        /\ (Failed(r) /\ ~Permanent(slast[r].text) /\ satt[r] < RequestAttempts) =>
              (spc = r /\ sexc[r] = NoError)
        /\ (Failed(r) /\ satt[r] = RequestAttempts) =>
              (spc # r /\ sexc[r] = slast[r].text)
        /\ slast[r].type = "ok" => (spc # r /\ sexc[r] = NoError)
        /\ sexc[r] # NoError => (Failed(r) /\ sexc[r] = slast[r].text)

C19_TenthAttemptCannotConnect ==
    /\ scall = "snap_channels"
    /\ satt["find"] = RequestAttempts
    /\ sexc["find"] = CannotConnect
    /\ spc = "raised"
    /\ sresult = [type |-> "error", text |-> CannotConnect]

(* C20: without the snapd socket, snap_info and snap_channels make one     *)
(* attempt and raise; they return nothing.                                 *)
C20_MissingSocketRaises ==
    (scall # "none" /\ ~socket) =>
        /\ satt["get"] + satt["find"] <= 1
        /\ spc # "returned"
        /\ spc = "raised" => sresult = [type |-> "error", text |-> SocketNotFound]

(***************************************************************************)
(* More properties of JujuHandler                                          *)
(***************************************************************************)
(* C21: one _check_bootstrapped runs show-controller at most CheckAttempts *)
(* times: the attempt a provider's check is at is never a later one, so    *)
(* that the answer is the outcome of the retry loop's last attempt.        *)
C21_NoProbeAfterRetryLoop ==
    \A p \in JujuProviderNames :
        /\ jpc[p] = "probe" => jtry[p] <= CheckAttempts
        /\ jfound[p] = "raised" => jshow[p].rc # 0

(***************************************************************************)
(* DebHandler.prepare on its own: the apt-get commands of one call, each   *)
(* logged when run_exclusive starts it.                                    *)
(***************************************************************************)
MaxPackages == 3

DebNames == {"make", "git", "curl"}

PackageLists ==
    UNION {[1..n -> DebNames] : n \in 0..MaxPackages}

AptGet(args) ==
    [argv |-> <<"apt-get">> \o args, exclusive |-> TRUE, status |-> "running"]

NothingToInstallNever(packages) == FALSE

(* `if not self.packages: return`                                          *)
NothingToInstall(packages) == packages = <<>>

DebFrame == UNCHANGED <<planvars, jujuvars, retryvars, snapdvars, snaphvars, funvars>>

(* prepare is called: it returns at once, or starts apt-get update.        *)
DPrepare ==
    /\ dpc \in {"idle", "returned", "raised"}
    /\ \E packages \in PackageLists :
        /\ dpackages' = packages
        /\ IF NothingToInstall(packages)
           THEN dpc' = "returned" /\ dlog' = <<>>
           ELSE dpc' = "update" /\ dlog' = <<AptGet(<<"update">>)>>
    /\ dix' = 0
    /\ DebFrame

Ended(log, status) == [log EXCEPT ![Len(log)].status = status]

(* The command in flight exits 0: the loop installs the next package, or   *)
(* prepare returns.                                                        *)
DCommandSucceeds ==
    /\ dpc \in {"update", "install"}
    /\ IF dix < Len(dpackages)
       THEN /\ dpc' = "install"
            /\ dix' = dix + 1
            /\ dlog' = Append(Ended(dlog, "ok"),
                              AptGet(<<"install", "-y", dpackages[dix + 1]>>))
       ELSE /\ dpc' = "returned"
            /\ dlog' = Ended(dlog, "ok")
            /\ UNCHANGED dix
    /\ UNCHANGED dpackages
    /\ DebFrame

(* The command in flight exits nonzero: CommandError leaves prepare.       *)
DCommandFails ==
    /\ dpc \in {"update", "install"}
    /\ dpc' = "raised"
    /\ dlog' = Ended(dlog, "failed")
    /\ UNCHANGED <<dpackages, dix>>
    /\ DebFrame

DebInit ==
    /\ PlanIdle
    /\ JujuIdle
    /\ RetryIdle
    /\ SnapdIdle
    /\ DebIdle
    /\ SnapHandlerIdle
    /\ FunctionsIdle

DebNext ==
    \/ DPrepare
    \/ DCommandSucceeds
    \/ DCommandFails

DebSpec == DebInit /\ [][DebNext]_vars

(* C22: with an empty list prepare starts no apt-get; otherwise the first  *)
(* command is the one apt-get update, the i-th install is that of the i-th *)
(* package, every command runs under run_exclusive and starts only after   *)
(* all earlier ones exited 0, so that nothing follows a failure; prepare   *)
(* returns when every package was installed.                               *)
C22_UpdateThenInstallInOrder ==
    /\ dpackages = <<>> => dlog = <<>>
    /\ Len(dlog) <= 1 + Len(dpackages)
    /\ dpc # "idle" /\ dpackages # <<>> =>
          dlog[1].argv = <<"apt-get", "update">>
    /\ \A i \in 1..Len(dlog) :
        /\ i > 1 => dlog[i].argv = <<"apt-get", "install", "-y", dpackages[i - 1]>>
        /\ dlog[i].exclusive
        /\ i < Len(dlog) => dlog[i].status = "ok"
        /\ dlog[i].status = "failed" => dpc = "raised"
        /\ dlog[i].status = "running" => dpc \in {"update", "install"}
    /\ dpc = "returned" =>
          (dpackages = <<>> \/ Len(dlog) = 1 + Len(dpackages))
    /\ dpc = "raised" => dlog[Len(dlog)].status = "failed"

C22_SecondInstallFailed ==
    /\ dpackages = <<"git", "make", "git">>
    /\ dpc = "raised"
    /\ Len(dlog) = 3
    /\ dlog[3] = [argv |-> <<"apt-get", "install", "-y", "make">>,
                  exclusive |-> TRUE, status |-> "failed"]

(***************************************************************************)
(* SnapHandler.prepare on its own: the snap commands of one call.  A       *)
(* connection string is the sequence of its words.                         *)
(***************************************************************************)
MaxSnapList == 2

SnapDescriptors ==
    {[name |-> "jq", channel |-> "", connections |-> <<>>],
     [name |-> "jq", channel |-> "latest/edge", connections |-> <<>>],
     [name |-> "yq", channel |-> "",
      connections |-> <<<<"yq:home">>, <<"yq:removable-media", "core">>>>],
     [name |-> "lxd", channel |-> "5.21/stable",
      connections |-> <<<<"lxd:a", "core:b", "c">>, <<"lxd:d">>>>]}

SnapLists == UNION {[1..n -> SnapDescriptors] : n \in 0..MaxSnapList}

(* SnapInfo as the handler reads it.                                       *)
SnapInfos == [installed : BOOLEAN, classic : BOOLEAN]

SnapCommand(args) ==
    [argv |-> <<"snap">> \o args, exclusive |-> TRUE, status |-> "running"]

InstallArgsDefaultChannel(snap, info) ==
    <<IF info.installed THEN "refresh" ELSE "install", snap.name,
      "--channel", IF snap.channel # "" THEN snap.channel ELSE "latest/stable">>
    \o (IF info.classic THEN <<"--classic">> ELSE <<>>)

(* The arguments _install_snap builds.                                     *)
InstallArgs(snap, info) ==
    <<IF info.installed THEN "refresh" ELSE "install", snap.name>>
    \o (IF snap.channel # "" THEN <<"--channel", snap.channel>> ELSE <<>>)
    \o (IF info.classic THEN <<"--classic">> ELSE <<>>)

SnapHandlerFrame == UNCHANGED <<planvars, jujuvars, retryvars, snapdvars, debvars, funvars>>

(* prepare is called; _install_snap of the first snap asks snap_info.      *)
HPrepare ==
    /\ hpc \in {"idle", "returned", "raised"}
    /\ \E snaps \in SnapLists :
        /\ hsnaps' = snaps
        /\ hpc' = IF snaps = <<>> THEN "returned" ELSE "info"
        /\ hix' = IF snaps = <<>> THEN 0 ELSE 1
    /\ hcx' = 0
    /\ hinfos' = <<>>
    /\ hlog' = <<>>
    /\ SnapHandlerFrame

(* snap_info returns: the install or refresh command is started.           *)
HSnapInfoReturns ==
    /\ hpc = "info"
    /\ \E info \in SnapInfos :
        /\ hinfos' = Append(hinfos, info)
        /\ hlog' = Append(hlog, SnapCommand(InstallArgs(hsnaps[hix], info)))
    /\ hpc' = "command"
    /\ UNCHANGED <<hsnaps, hix, hcx>>
    /\ SnapHandlerFrame

(* snap_info raises: so does prepare.                                      *)
HSnapInfoRaises ==
    /\ hpc = "info"
    /\ hpc' = "raised"
    /\ UNCHANGED <<hsnaps, hix, hcx, hinfos, hlog>>
    /\ SnapHandlerFrame

(* The command in flight exits 0.  _connect_snap takes the snap's next     *)
(* connection: ValueError when it has more than two words, else snap       *)
(* connect; after the last one the loop of prepare takes the next snap.    *)
HCommandSucceeds ==
    /\ hpc = "command"
    /\ IF hcx < Len(hsnaps[hix].connections)
       THEN /\ hcx' = hcx + 1
            /\ IF Len(hsnaps[hix].connections[hcx + 1]) > 2
               THEN /\ hpc' = "raised"
                    /\ hlog' = Ended(hlog, "ok")
               ELSE /\ hpc' = "command"
                    /\ hlog' = Append(Ended(hlog, "ok"),
                          SnapCommand(<<"connect">> \o hsnaps[hix].connections[hcx + 1]))
            /\ UNCHANGED hix
       ELSE /\ hcx' = 0
            /\ hlog' = Ended(hlog, "ok")
            /\ IF hix < Len(hsnaps)
               THEN hpc' = "info" /\ hix' = hix + 1
               ELSE hpc' = "returned" /\ UNCHANGED hix
    /\ UNCHANGED <<hsnaps, hinfos>>
    /\ SnapHandlerFrame

(* The command in flight exits nonzero: CommandError leaves prepare.       *)
HCommandFails ==
    /\ hpc = "command"
    /\ hpc' = "raised"
    /\ hlog' = Ended(hlog, "failed")
    /\ UNCHANGED <<hsnaps, hix, hcx, hinfos>>
    /\ SnapHandlerFrame

SnapHandlerInit ==
    /\ PlanIdle
    /\ JujuIdle
    /\ RetryIdle
    /\ SnapdIdle
    /\ DebIdle
    /\ SnapHandlerIdle
    /\ FunctionsIdle

SnapHandlerNext ==
    \/ HPrepare
    \/ HSnapInfoReturns
    \/ HSnapInfoRaises
    \/ HCommandSucceeds
    \/ HCommandFails

SnapHandlerSpec == SnapHandlerInit /\ [][SnapHandlerNext]_vars

(***************************************************************************)
(* Properties of SnapHandler                                               *)
(***************************************************************************)
Words(argv) == {argv[i] : i \in 1..Len(argv)}

(* Where the commands of snap i begin in the log, every earlier snap       *)
(* having had its install or refresh and all its connections.              *)
RECURSIVE FirstCommand(_)
FirstCommand(i) ==
    IF i = 1 THEN 1
    ELSE FirstCommand(i - 1) + 1 + Len(hsnaps[i - 1].connections)

InstallOrRefresh(argv, snap, info) ==
    /\ argv[1] = "snap"
    /\ argv[2] = (IF info.installed THEN "refresh" ELSE "install")
    /\ argv[3] = snap.name
    /\ "--channel" \in Words(argv) <=> snap.channel # ""
    /\ \A k \in 1..Len(argv) :
          argv[k] = "--channel" => (k < Len(argv) /\ argv[k + 1] = snap.channel)
    /\ "--classic" \in Words(argv) <=> info.classic
    /\ Len(argv) = 3 + (IF snap.channel # "" THEN 2 ELSE 0)
                     + (IF info.classic THEN 1 ELSE 0)

(* C23: snap by snap in list order, prepare starts one `snap refresh` when *)
(* snap_info said installed and one `snap install` otherwise, with         *)
(* --channel and the descriptor's channel exactly when that channel is not *)
(* empty and --classic exactly when snap_info said classic; the snap's     *)
(* connect commands follow, in order, before the next snap's command.      *)
C23_InstallOrRefreshThenConnect ==
    /\ hinfos = <<>> => hlog = <<>>
    /\ Len(hinfos) <= Len(hsnaps)
    /\ \A i \in 1..Len(hinfos) :
        /\ FirstCommand(i) <= Len(hlog)
        /\ InstallOrRefresh(hlog[FirstCommand(i)].argv, hsnaps[i], hinfos[i])
        /\ \A k \in 1..Len(hsnaps[i].connections) :
              FirstCommand(i) + k <= Len(hlog) =>
                  hlog[FirstCommand(i) + k].argv =
                      <<"snap", "connect">> \o hsnaps[i].connections[k]
    /\ hinfos # <<>> =>
          Len(hlog) <= FirstCommand(Len(hinfos))
                         + Len(hsnaps[Len(hinfos)].connections)
    /\ \A j \in 1..Len(hlog) :
        /\ hlog[j].argv[2] \in {"install", "refresh"} <=>
              \E i \in 1..Len(hinfos) : j = FirstCommand(i)
        /\ j < Len(hlog) => hlog[j].status = "ok"
        /\ hlog[j].exclusive
    /\ hpc = "returned" =>
          /\ Len(hinfos) = Len(hsnaps)
          /\ Len(hlog) = FirstCommand(Len(hsnaps) + 1) - 1

C23_RefreshConnectThenInstall ==
    /\ hpc = "returned"
    /\ Len(hsnaps) = 2
    /\ hsnaps[1].name = "yq"
    /\ hinfos = <<[installed |-> TRUE, classic |-> FALSE],
                  [installed |-> FALSE, classic |-> TRUE]>>
    /\ Len(hlog) = 4
    /\ hlog[1].argv = <<"snap", "refresh", "yq">>
    /\ hlog[3].argv = <<"snap", "connect", "yq:removable-media", "core">>
    /\ hlog[4].argv = <<"snap", "install", "jq", "--channel", "latest/edge",
                        "--classic">>

(***************************************************************************)
(* Functions on their own.  A dict is a function whose domain is its keys. *)
(***************************************************************************)
FunctionsFrame == UNCHANGED <<planvars, jujuvars, retryvars, snapdvars, debvars, snaphvars>>

Missing == "<missing>"

(* dict.get(key, default)                                                  *)
Get(dict, key, default) == IF key \in DOMAIN dict THEN dict[key] ELSE default

(* The dict with the keys of entries whose value is given.                 *)
Dict(entries) ==
    [k \in {key \in DOMAIN entries : entries[key] # Missing} |-> entries[k]]

(* What GET /v2/snaps/<name> can answer for a snap snapd knows.            *)
SnapDatas ==
    {Dict([status |-> s, tracking |-> t, channel |-> c]) :
        s \in {Missing, "active", "installed"},
        t \in {Missing, "", "latest/stable"},
        c \in {Missing, "latest/edge"}}

ChannelMaps ==
    {<<>>,
     [c \in {"latest/edge"} |-> [confinement |-> "classic"]],
     [c \in {"latest/edge"} |-> [confinement |-> "strict"]],
     [c \in {"latest/stable"} |-> [confinement |-> "classic"]]}

(* What GET /v2/find?name=<name> can answer: with or without a channel     *)
(* map, with or without a top-level confinement.                           *)
StoreInfos ==
    {[confinement |-> c] : c \in {"classic", "strict"}}
    \cup {[confinement |-> c, channels |-> m] :
            c \in {"classic", "strict"}, m \in ChannelMaps}
    \cup {[channels |-> m] : m \in ChannelMaps}

SnapInfoInputs ==
    [exists : BOOLEAN, snap_data : SnapDatas, store_info : StoreInfos,
     channel : {"", "latest/edge"}]

(* _snap_installed_info; `tracking` stands for the key tracking-channel,   *)
(* exists = FALSE for the daemon answering `snap not installed`.           *)
SnapInstalledInfo(exists, snap_data) ==
    IF exists /\ DOMAIN snap_data # {} /\ Get(snap_data, "status", "") = "active"
    THEN [installed |-> TRUE,
          tracking_channel |->
              IF Get(snap_data, "tracking", "") # ""
              THEN Get(snap_data, "tracking", "")
              ELSE Get(snap_data, "channel", "")]
    ELSE [installed |-> FALSE, tracking_channel |-> ""]

SnapIsClassicTopLevel(store_info, channel) ==
    Get(store_info, "confinement", "") = "classic"

(* _snap_is_classic                                                        *)
SnapIsClassic(store_info, channel) ==
    IF /\ channel # ""
       /\ "channels" \in DOMAIN store_info
       /\ channel \in DOMAIN store_info.channels
    THEN store_info.channels[channel].confinement = "classic"
    ELSE Get(store_info, "confinement", "") = "classic"

(* SnapdClient.snap_info, both daemon requests answered.                   *)
ApplySnapInfo ==
    /\ fname = "snap_info"
    /\ ~fdone
    /\ fout' = [installed |-> SnapInstalledInfo(farg.exists, farg.snap_data).installed,
                classic |-> SnapIsClassic(farg.store_info, farg.channel),
                tracking_channel |->
                    SnapInstalledInfo(farg.exists, farg.snap_data).tracking_channel]
    /\ fdone' = TRUE
    /\ UNCHANGED <<fname, farg>>
    /\ FunctionsFrame

Has(dict, key, value) == key \in DOMAIN dict /\ dict[key] = value

(* C24: snap_info says installed exactly when the daemon has the snap with *)
(* status "active"; tracking_channel is then the daemon's tracking-channel *)
(* or, failing that, its channel, and is empty when not installed; classic *)
(* is the confinement of the asked channel when a channel is asked and the *)
(* store's channel map has it, and the top-level confinement otherwise.    *)
C24_SnapInfoFromDaemonData ==
    (fname = "snap_info" /\ fdone) =>
        /\ fout.installed <=>
              (farg.exists /\ Has(farg.snap_data, "status", "active"))
        /\ fout.installed =>
              \/ /\ "tracking" \in DOMAIN farg.snap_data
                 /\ farg.snap_data.tracking # ""
                 /\ fout.tracking_channel = farg.snap_data.tracking
              \/ /\ ~("tracking" \in DOMAIN farg.snap_data
                      /\ farg.snap_data.tracking # "")
                 /\ "channel" \in DOMAIN farg.snap_data
                 /\ fout.tracking_channel = farg.snap_data.channel
              \/ /\ ~("tracking" \in DOMAIN farg.snap_data
                      /\ farg.snap_data.tracking # "")
                 /\ "channel" \notin DOMAIN farg.snap_data
                 /\ fout.tracking_channel = ""
        /\ ~fout.installed => fout.tracking_channel = ""
        /\ IF /\ farg.channel # ""
              /\ "channels" \in DOMAIN farg.store_info
              /\ farg.channel \in DOMAIN farg.store_info.channels
           THEN fout.classic <=>
                  farg.store_info.channels[farg.channel].confinement = "classic"
           ELSE fout.classic <=> Has(farg.store_info, "confinement", "classic")

C24_ChannelConfinementWins ==
    /\ fname = "snap_info"
    /\ fdone
    /\ farg.channel = "latest/edge"
    /\ farg.store_info =
          [confinement |-> "strict",
           channels |-> [c \in {"latest/edge"} |-> [confinement |-> "classic"]]]
    /\ farg.exists
    /\ farg.snap_data = [status |-> "active", tracking |-> "", channel |-> "latest/edge"]
    /\ fout = [installed |-> TRUE, classic |-> TRUE,
               tracking_channel |-> "latest/edge"]

(***************************************************************************)
(* The argv of `juju bootstrap`.  A dict is here the sequence of its       *)
(* entries in insertion order, which is the order Python iterates it in.   *)
(***************************************************************************)
(* Every key the dicts may hold, in the ascending order sorted() gives.    *)
KeysInOrder == <<"arch", "automatically-retry-hooks", "mem", "test-mode">>

Keys(d) == {d[i].key : i \in 1..Len(d)}

Value(d, k) == (CHOOSE e \in {d[i] : i \in 1..Len(d)} : e.key = k).value

OrderedDicts(keys, values) ==
    {d \in UNION {[1..n -> [key : keys, value : values]] : n \in 0..Cardinality(keys)} :
        \A i, j \in 1..Len(d) : d[i].key = d[j].key => i = j}

(* _merge_dicts: base.copy() then update(override).                        *)
MergeDicts(base, override) ==
    [i \in 1..Len(base) |->
        IF base[i].key \in Keys(override)
        THEN [key |-> base[i].key, value |-> Value(override, base[i].key)]
        ELSE base[i]]
    \o SelectSeq(override, LAMBDA e : e.key \notin Keys(base))

KeysAsInserted(d) == [i \in 1..Len(d) |-> d[i].key]

(* sorted(d.keys())                                                        *)
SortedKeys(d) == Filter(KeysInOrder, Keys(d))

RECURSIVE Options(_, _, _)
Options(flag, d, keys) ==
    IF keys = <<>> THEN <<>>
    ELSE <<flag, Head(keys) \o "=" \o Value(d, Head(keys))>>
         \o Options(flag, d, Tail(keys))

RECURSIVE Join(_)
Join(words) ==
    IF Len(words) = 1 THEN Head(words)
    ELSE Head(words) \o " " \o Join(Tail(words))

(* shlex.split: a bare word is an argument, and so is a quoted run of      *)
(* words, spaces kept.                                                     *)
ShlexSplit(lexemes) == [i \in 1..Len(lexemes) |-> Join(lexemes[i])]

(* Provider.cloud_name()                                                   *)
CloudName(p) == IF p = "lxd" THEN "localhost" ELSE p

BootstrapInputs ==
    [provider : JujuProviderNames,
     agent_version : {"", "3.6.1"},
     model_defaults : OrderedDicts({"automatically-retry-hooks", "test-mode"},
                                   {"true", "false"}),
     provider_model_defaults : OrderedDicts({"automatically-retry-hooks", "test-mode"},
                                            {"false"}),
     bootstrap_constraints : OrderedDicts({"arch", "mem"}, {"amd64"}),
     provider_bootstrap_constraints : OrderedDicts({"mem"}, {"8G"}),
     extra_bootstrap_args : {<<>>, <<<<"--force">>>>,
                             <<<<"--config">>, <<"a", "b">>>>}]

BootstrapArgsUnsorted(in) ==
    <<"bootstrap", CloudName(in.provider), ControllerName(in.provider), "--verbose">>
    \o (IF in.agent_version # "" THEN <<"--agent-version", in.agent_version>> ELSE <<>>)
    \o Options("--model-default",
               MergeDicts(in.model_defaults, in.provider_model_defaults),
               KeysAsInserted(MergeDicts(in.model_defaults, in.provider_model_defaults)))
    \o Options("--bootstrap-constraints",
               MergeDicts(in.bootstrap_constraints, in.provider_bootstrap_constraints),
               KeysAsInserted(MergeDicts(in.bootstrap_constraints,
                                         in.provider_bootstrap_constraints)))
    \o ShlexSplit(in.extra_bootstrap_args)

(* The args _bootstrap_provider builds.                                    *)
BootstrapArgs(in) ==
    <<"bootstrap", CloudName(in.provider), ControllerName(in.provider), "--verbose">>
    \o (IF in.agent_version # "" THEN <<"--agent-version", in.agent_version>> ELSE <<>>)
    \o Options("--model-default",
               MergeDicts(in.model_defaults, in.provider_model_defaults),
               SortedKeys(MergeDicts(in.model_defaults, in.provider_model_defaults)))
    \o Options("--bootstrap-constraints",
               MergeDicts(in.bootstrap_constraints, in.provider_bootstrap_constraints),
               SortedKeys(MergeDicts(in.bootstrap_constraints,
                                     in.provider_bootstrap_constraints)))
    \o ShlexSplit(in.extra_bootstrap_args)

ApplyBootstrapArgs ==
    /\ fname = "bootstrap_args"
    /\ ~fdone
    /\ fout' = BootstrapArgs(farg)
    /\ fdone' = TRUE
    /\ UNCHANGED <<fname, farg>>
    /\ FunctionsFrame

Rank(k) == CHOOSE i \in 1..Len(KeysInOrder) : KeysInOrder[i] = k

(* The j-th smallest of the keys.                                          *)
NthKey(keys, j) ==
    CHOOSE k \in keys : Cardinality({l \in keys : Rank(l) < Rank(k)}) = j - 1

(* provider-specific overrides global                                      *)
Merged(global, provider, k) ==
    IF k \in Keys(provider) THEN Value(provider, k) ELSE Value(global, k)

(* argv from position `from` on holds one `flag k=v` per key of the two    *)
(* dicts, keys ascending.                                                  *)
OptionsAt(argv, from, flag, global, provider) ==
    \A j \in 1..Cardinality(Keys(global) \cup Keys(provider)) :
        /\ argv[from + 2 * j - 2] = flag
        /\ argv[from + 2 * j - 1] =
              NthKey(Keys(global) \cup Keys(provider), j) \o "=" \o
              Merged(global, provider, NthKey(Keys(global) \cup Keys(provider), j))

AgentLen == IF farg.agent_version # "" THEN 2 ELSE 0

DefaultsLen ==
    2 * Cardinality(Keys(farg.model_defaults) \cup Keys(farg.provider_model_defaults))

ConstraintsLen ==
    2 * Cardinality(Keys(farg.bootstrap_constraints)
                    \cup Keys(farg.provider_bootstrap_constraints))

(* C26: the bootstrap argv is bootstrap, the cloud name, concierge-<name>, *)
(* --verbose; then --agent-version and the version when one is set; then   *)
(* one --model-default k=v per key of the merged model-defaults, keys      *)
(* ascending and the provider's value winning; then the same with          *)
(* --bootstrap-constraints; then the shell-split extra arguments.          *)
C26_BootstrapArgv ==
    (fname = "bootstrap_args" /\ fdone) =>
        /\ SubSeq(fout, 1, 4) = <<"bootstrap", CloudName(farg.provider),
                                  "concierge-" \o farg.provider, "--verbose">>
        /\ farg.agent_version # "" =>
              SubSeq(fout, 5, 6) = <<"--agent-version", farg.agent_version>>
        /\ OptionsAt(fout, 5 + AgentLen, "--model-default",
                     farg.model_defaults, farg.provider_model_defaults)
        /\ OptionsAt(fout, 5 + AgentLen + DefaultsLen, "--bootstrap-constraints",
                     farg.bootstrap_constraints, farg.provider_bootstrap_constraints)
        /\ Len(fout) = 4 + AgentLen + DefaultsLen + ConstraintsLen
                         + Len(farg.extra_bootstrap_args)
        /\ \A i \in 1..Len(farg.extra_bootstrap_args) :
              fout[4 + AgentLen + DefaultsLen + ConstraintsLen + i] =
                  Join(farg.extra_bootstrap_args[i])

C26_ProviderValueWinsKeysSorted ==
    /\ fname = "bootstrap_args"
    /\ fdone
    /\ farg.provider = "lxd"
    /\ farg.model_defaults = <<[key |-> "test-mode", value |-> "true"],
                               [key |-> "automatically-retry-hooks", value |-> "true"]>>
    /\ farg.provider_model_defaults = <<[key |-> "test-mode", value |-> "false"]>>
    /\ fout = <<"bootstrap", "localhost", "concierge-lxd", "--verbose",
                "--agent-version", "3.6.1",
                "--model-default", "automatically-retry-hooks=true",
                "--model-default", "test-mode=false",
                "--bootstrap-constraints", "arch=amd64",
                "--bootstrap-constraints", "mem=8G",
                "--config", "a b">>

(***************************************************************************)
(* build_credentials_yaml and the write _write_credentials makes of it.    *)
(***************************************************************************)
MaxProviders == 3

(* What provider.credentials() can return: None (given is FALSE) or a      *)
(* dict, the empty one included.                                           *)
CredentialValues ==
    {[given |-> FALSE, dict |-> Dict([file |-> Missing])]}
    \cup {[given |-> TRUE, dict |-> Dict([file |-> f, authtype |-> a])] :
            f \in {Missing, "/home/ubuntu/creds.json"},
            a \in {Missing, "interactive"}}

CredentialProviders ==
    {ps \in UNION {[1..n -> [name : {"lxd", "microk8s", "google"},
                             credentials : CredentialValues]] : n \in 0..MaxProviders} :
        \A i, j \in 1..Len(ps) : ps[i].name = ps[j].name => i = j}

FalsyOnlyNone(creds) == ~creds.given

(* `not provider_creds`                                                    *)
Falsy(creds) == ~creds.given \/ DOMAIN creds.dict = {}

RECURSIVE BuildCredentialsYaml(_)
BuildCredentialsYaml(providers) ==
    IF providers = <<>> THEN Dict([none |-> Missing])
    ELSE LET rest == BuildCredentialsYaml(SubSeq(providers, 1, Len(providers) - 1))
             provider == providers[Len(providers)]
         IN IF Falsy(provider.credentials) THEN rest
            ELSE [c \in DOMAIN rest \cup {CloudName(provider.name)} |->
                    IF c = CloudName(provider.name)
                    THEN [concierge |-> provider.credentials.dict]
                    ELSE rest[c]]

(* _write_credentials: what write_home_file is given, if it is called.     *)
ApplyWriteCredentials ==
    /\ fname = "write_credentials"
    /\ ~fdone
    /\ fout' = [written |-> DOMAIN BuildCredentialsYaml(farg) # {},
                credentials |-> BuildCredentialsYaml(farg)]
    /\ fdone' = TRUE
    /\ UNCHANGED <<fname, farg>>
    /\ FunctionsFrame

HasCredentials(i) == farg[i].credentials.given /\ DOMAIN farg[i].credentials.dict # {}

(* C27: the credentials file is written iff some provider has non-empty    *)
(* credentials, and the mapping holds <cloud name>.concierge = the         *)
(* credentials for exactly the providers that have some.                   *)
C27_CredentialsOfExactlyTheProvidersWithSome ==
    (fname = "write_credentials" /\ fdone) =>
        /\ fout.written <=> \E i \in 1..Len(farg) : HasCredentials(i)
        /\ DOMAIN fout.credentials =
              {CloudName(farg[i].name) : i \in {j \in 1..Len(farg) : HasCredentials(j)}}
        /\ \A i \in 1..Len(farg) :
              HasCredentials(i) =>
                  fout.credentials[CloudName(farg[i].name)].concierge
                      = farg[i].credentials.dict

C27_GoogleWrittenLXDEmptyMicroK8sNone ==
    /\ fname = "write_credentials"
    /\ fdone
    /\ Len(farg) = 3
    /\ \E i, j, k \in 1..3 :
          /\ farg[i].name = "google" /\ HasCredentials(i)
          /\ farg[j].name = "lxd" /\ farg[j].credentials.given
          /\ farg[k].name = "microk8s" /\ ~farg[k].credentials.given
    /\ fout.written
    /\ DOMAIN fout.credentials = {"google"}

(***************************************************************************)
(* The plan's snaps: load_config applies the overrides to host.snaps and   *)
(* Plan.__init__ builds the list from host.snaps and overrides.extra_snaps.*)
(* A snap shorthand is the sequence of its parts between the "/".          *)
(***************************************************************************)
MaxExtraSnaps == 2

RECURSIVE JoinSlash(_)
JoinSlash(parts) ==
    IF parts = <<>> THEN ""
    ELSE IF Len(parts) = 1 THEN Head(parts)
    ELSE Head(parts) \o "/" \o JoinSlash(Tail(parts))

(* Snap.from_string: split("/", 1)                                         *)
FromString(snap_str) == [name |-> Head(snap_str), channel |-> JoinSlash(Tail(snap_str))]

Shorthands == {<<"jq">>, <<"jq", "latest", "edge">>, <<"yq">>, <<"charmcraft", "3.x">>}

ExtraSnaps ==
    {x \in UNION {[1..n -> Shorthands] : n \in 0..MaxExtraSnaps} :
        \A i, j \in 1..Len(x) : Head(x[i]) = Head(x[j]) => i = j}

PlanSnapsInputs ==
    [snaps : OrderedDicts({"jq", "charmcraft"}, {"", "latest/stable"}),
     extra_snaps : ExtraSnaps,
     charmcraft_channel : {"", "latest/candidate"},
     snapcraft_channel : {"", "8.x/stable"},
     rockcraft_channel : {""}]

(* host.snaps[name] created if missing, then its channel set               *)
SetChannel(snaps, name, channel) ==
    IF name \in Keys(snaps)
    THEN [i \in 1..Len(snaps) |->
            IF snaps[i].key = name THEN [key |-> name, value |-> channel] ELSE snaps[i]]
    ELSE Append(snaps, [key |-> name, value |-> channel])

ChannelOverride(snaps, name, channel) ==
    IF channel # "" THEN SetChannel(snaps, name, channel) ELSE snaps

RECURSIVE AddExtraSnaps(_, _)
AddExtraSnaps(snaps, extra_snaps) ==
    IF extra_snaps = <<>> THEN snaps
    ELSE LET snap == FromString(Head(extra_snaps))
         IN AddExtraSnaps(IF snap.name \notin Keys(snaps) \/ snap.channel # ""
                          THEN SetChannel(snaps, snap.name, snap.channel)
                          ELSE snaps,
                          Tail(extra_snaps))

(* host.snaps after _apply_overrides                                       *)
ApplyOverrides(in) ==
    AddExtraSnaps(
        ChannelOverride(
            ChannelOverride(
                ChannelOverride(in.snaps, "charmcraft", in.charmcraft_channel),
                "snapcraft", in.snapcraft_channel),
            "rockcraft", in.rockcraft_channel),
        in.extra_snaps)

GetSnapChannelOverride(in, snap_name) ==
    CASE snap_name = "charmcraft" -> in.charmcraft_channel
      [] snap_name = "snapcraft" -> in.snapcraft_channel
      [] snap_name = "rockcraft" -> in.rockcraft_channel
      [] OTHER -> ""

Overridden(in, name, channel) ==
    IF GetSnapChannelOverride(in, name) # ""
    THEN GetSnapChannelOverride(in, name) ELSE channel

(* Plan.snaps of the loaded configuration                                  *)
PlanSnaps(in) ==
    [i \in 1..Len(ApplyOverrides(in)) |->
        [name |-> ApplyOverrides(in)[i].key,
         channel |-> Overridden(in, ApplyOverrides(in)[i].key,
                                ApplyOverrides(in)[i].value)]]
    \o [i \in 1..Len(in.extra_snaps) |->
        [name |-> FromString(in.extra_snaps[i]).name,
         channel |-> Overridden(in, FromString(in.extra_snaps[i]).name,
                                FromString(in.extra_snaps[i]).channel)]]

ApplyPlanSnaps ==
    /\ fname = "plan_snaps"
    /\ ~fdone
    /\ fout' = PlanSnaps(farg)
    /\ fdone' = TRUE
    /\ UNCHANGED <<fname, farg>>
    /\ FunctionsFrame

ExtraNamed(name) ==
    {i \in 1..Len(farg.extra_snaps) : Head(farg.extra_snaps[i]) = name}

ExpectedNames ==
    Keys(farg.snaps)
    \cup {Head(farg.extra_snaps[i]) : i \in 1..Len(farg.extra_snaps)}
    \cup {n \in {"charmcraft", "snapcraft", "rockcraft"} :
            GetSnapChannelOverride(farg, n) # ""}

ExpectedChannel(name) ==
    IF GetSnapChannelOverride(farg, name) # "" THEN GetSnapChannelOverride(farg, name)
    ELSE IF \E i \in ExtraNamed(name) : Len(farg.extra_snaps[i]) > 1
    THEN LET i == CHOOSE j \in ExtraNamed(name) : Len(farg.extra_snaps[j]) > 1
         IN JoinSlash(Tail(farg.extra_snaps[i]))
    ELSE IF name \in Keys(farg.snaps) THEN Value(farg.snaps, name)
    ELSE ""

(* C29: in the plan built from a loaded configuration every snap name      *)
(* occurs exactly once, with the channel of its charmcraft, snapcraft or   *)
(* rockcraft override if there is one, else the channel its extra names,   *)
(* else the channel of its host entry.                                     *)
C29_EachSnapOnceWithWinningChannel ==
    (fname = "plan_snaps" /\ fdone) =>
        /\ {fout[i].name : i \in 1..Len(fout)} = ExpectedNames
        /\ \A name \in ExpectedNames :
              Cardinality({i \in 1..Len(fout) : fout[i].name = name}) = 1
        /\ \A i \in 1..Len(fout) : fout[i].channel = ExpectedChannel(fout[i].name)

(***************************************************************************)
(* The home-scoped file operations of System.  A path is whether it is     *)
(* absolute and its parts; the filesystem is the set of the paths that     *)
(* exist, each from the root.                                              *)
(***************************************************************************)
HomeDir == <<"home", "ubuntu">>

HomeOperations == {"write_home_file", "mk_home_subdir", "remove_all_home", "read_home_file"}

Paths ==
    [absolute : BOOLEAN,
     parts : {<<"notes">>, <<".local", "share">>, <<"etc", "passwd">>,
              <<"..", "..", "etc", "passwd">>}]

Filesystems == SUBSET {<<"etc", "passwd">>, <<"home", "ubuntu", "notes">>}

HomeInputs == [operation : HomeOperations, filepath : Paths, exists : Filesystems]

(* What the kernel makes of the parts: ".." steps to the parent.           *)
RECURSIVE Resolve(_, _)
Resolve(parts, at) ==
    IF parts = <<>> THEN at
    ELSE IF Head(parts) = ".."
    THEN Resolve(Tail(parts), IF at = <<>> THEN at ELSE SubSeq(at, 1, Len(at) - 1))
    ELSE Resolve(Tail(parts), Append(at, Head(parts)))

(* self.home_dir() / filepath: an absolute right operand replaces the left *)
FullPath(filepath) ==
    Resolve(IF filepath.absolute THEN filepath.parts ELSE HomeDir \o filepath.parts, <<>>)

(* filepath.parent                                                         *)
PathParent(filepath) ==
    [absolute |-> filepath.absolute,
     parts |-> SubSeq(filepath.parts, 1, Len(filepath.parts) - 1)]

(* `if filepath.is_absolute(): raise ValueError`, where the code has it    *)
ChecksAbsolute(operation) == operation \in {"write_home_file", "mk_home_subdir"}

(* What the operation raises and the paths it creates, writes, removes or  *)
(* reads.                                                                  *)
HomeOperation(in) ==
    IF ChecksAbsolute(in.operation) /\ in.filepath.absolute
    THEN [raised |-> "ValueError", touched |-> {}]
    ELSE CASE in.operation = "write_home_file" ->
                [raised |-> "none",
                 touched |-> {FullPath(PathParent(in.filepath)), FullPath(in.filepath)}]
           [] in.operation = "mk_home_subdir" ->
                [raised |-> "none", touched |-> {FullPath(in.filepath)}]
           [] in.operation = "remove_all_home" ->
                [raised |-> "none",
                 touched |-> {FullPath(in.filepath)} \cap in.exists]
           [] in.operation = "read_home_file" ->
                IF FullPath(in.filepath) \in in.exists
                THEN [raised |-> "none", touched |-> {FullPath(in.filepath)}]
                ELSE [raised |-> "FileNotFoundError", touched |-> {}]

ApplyHomeOperation ==
    /\ fname = "home_operation"
    /\ ~fdone
    /\ fout' = HomeOperation(farg)
    /\ fdone' = TRUE
    /\ UNCHANGED <<fname, farg>>
    /\ FunctionsFrame

InHome(path) == Len(path) >= Len(HomeDir) /\ SubSeq(path, 1, Len(HomeDir)) = HomeDir

(* C30: each of the four home-scoped operations answers an absolute path   *)
(* with ValueError and touches nothing then, and none of them touches a    *)
(* path outside the home directory.                                        *)
C30_HomeOperationsStayInHome ==
    (fname = "home_operation" /\ fdone) =>
        /\ farg.filepath.absolute => fout.raised = "ValueError" /\ fout.touched = {}
        /\ \A path \in fout.touched : InHome(path)

(***************************************************************************)
(* Command.full_command                                                    *)
(***************************************************************************)
CommandInputs ==
    [executable : {"juju", "snap"},
     on_path : BOOLEAN,
     args : {<<>>, <<"bootstrap">>, <<"install", "lxd">>},
     user : {"", "root", "ubuntu"},
     group : {"", "lxd"}]

(* shutil.which(executable), or the executable itself when it is not on    *)
(* the PATH                                                                *)
ExecutablePath(in) ==
    IF in.on_path THEN "/usr/bin/" \o in.executable ELSE in.executable

NeedsSudoAlsoRoot(in) == in.user # "" \/ in.group # ""

(* `if (self.user or self.group) and self.user != "root"`                  *)
NeedsSudo(in) == (in.user # "" \/ in.group # "") /\ in.user # "root"

FullCommand(in) ==
    (IF NeedsSudo(in)
     THEN <<"sudo">>
          \o (IF in.user # "" THEN <<"-u", in.user>> ELSE <<>>)
          \o (IF in.group # "" THEN <<"-g", in.group>> ELSE <<>>)
     ELSE <<>>)
    \o <<ExecutablePath(in)>>
    \o in.args

ApplyFullCommand ==
    /\ fname = "full_command"
    /\ ~fdone
    /\ fout' = FullCommand(farg)
    /\ fdone' = TRUE
    /\ UNCHANGED <<fname, farg>>
    /\ FunctionsFrame

Sudo == (farg.user # "" \/ farg.group # "") /\ farg.user # "root"

UserLen == IF Sudo /\ farg.user # "" THEN 2 ELSE 0

GroupLen == IF Sudo /\ farg.group # "" THEN 2 ELSE 0

SudoLen == IF Sudo THEN 1 ELSE 0

(* C32: full_command starts with sudo iff user or group is non-empty and   *)
(* user is not root; then -u <user> follows iff user is non-empty, then    *)
(* -g <group> iff group is non-empty; then the executable and its args.    *)
C32_SudoPrefix ==
    (fname = "full_command" /\ fdone) =>
        /\ fout[1] = "sudo" <=> Sudo
        /\ UserLen = 2 => SubSeq(fout, 2, 3) = <<"-u", farg.user>>
        /\ GroupLen = 2 =>
              SubSeq(fout, 2 + UserLen, 3 + UserLen) = <<"-g", farg.group>>
        /\ Len(fout) = SudoLen + UserLen + GroupLen + 1 + Len(farg.args)
        /\ fout[SudoLen + UserLen + GroupLen + 1]
              \in {farg.executable, "/usr/bin/" \o farg.executable}
        /\ SubSeq(fout, SudoLen + UserLen + GroupLen + 2, Len(fout)) = farg.args

C32_RootWithGroupNoSudo ==
    /\ fname = "full_command"
    /\ fdone
    /\ farg.user = "root"
    /\ farg.group = "lxd"
    /\ fout = <<"/usr/bin/snap", "install", "lxd">>

(***************************************************************************)
(* LXD._install: the snap commands it issues, in order, each with how it   *)
(* ended.  A command is awaited before the next is issued.                 *)
(***************************************************************************)
LXDChannels == {"", "5.21/stable", "latest/stable"}

LXDInstallInputs ==
    [installed : BOOLEAN,
     channel : LXDChannels,
     tracking_channel : LXDChannels,
     stop_ok : BOOLEAN,
     install_ok : BOOLEAN,
     start_ok : BOOLEAN]

WorkaroundRefreshWheneverInstalled(in) == in.installed

(* _workaround_refresh issues `snap stop lxd` and returns True             *)
WorkaroundRefresh(in) ==
    /\ in.installed
    /\ ~(in.channel = "" \/ in.tracking_channel = in.channel)

Issued(verb, ok) == [verb |-> verb, ok |-> ok]

LXDInstall(in) ==
    IF WorkaroundRefresh(in) /\ ~in.stop_ok
    THEN <<Issued("stop", FALSE)>>
    ELSE (IF WorkaroundRefresh(in) THEN <<Issued("stop", TRUE)>> ELSE <<>>)
         \o <<Issued(IF in.installed THEN "refresh" ELSE "install", in.install_ok)>>
         \o (IF in.install_ok /\ WorkaroundRefresh(in)
             THEN <<Issued("start", in.start_ok)>> ELSE <<>>)

ApplyLXDInstall ==
    /\ fname = "lxd_install"
    /\ ~fdone
    /\ fout' = LXDInstall(farg)
    /\ fdone' = TRUE
    /\ UNCHANGED <<fname, farg>>
    /\ FunctionsFrame

At(verbs) == {i \in 1..Len(fout) : fout[i].verb \in verbs}

(* C38: snap stop lxd is issued iff the snap is installed, a channel is    *)
(* asked and it is not the tracking channel; the install or refresh is     *)
(* issued only after the stop has ended; snap start lxd is issued iff the  *)
(* stop was issued and the install or refresh succeeded, and after it.     *)
C38_StopRefreshStart ==
    (fname = "lxd_install" /\ fdone) =>
        /\ At({"stop"}) # {} <=>
              (farg.installed /\ farg.channel # ""
                 /\ farg.channel # farg.tracking_channel)
        /\ Cardinality(At({"stop"})) <= 1
        /\ Cardinality(At({"start"})) <= 1
        /\ \A i \in At({"stop"}) : \A j \in At({"install", "refresh"}) :
              i < j /\ fout[i].ok
        /\ At({"start"}) # {} <=>
              /\ At({"stop"}) # {}
              /\ \E j \in At({"install", "refresh"}) : fout[j].ok
        /\ \A j \in At({"install", "refresh"}) : \A k \in At({"start"}) : j < k

C38_StoppedRefreshedStarted ==
    /\ fname = "lxd_install"
    /\ fdone
    /\ farg.channel = "5.21/stable"
    /\ farg.tracking_channel = "latest/stable"
    /\ fout = <<Issued("stop", TRUE), Issued("refresh", TRUE), Issued("start", TRUE)>>

(***************************************************************************)
(* K8s and containerd: _handle_existing_containerd in a prepare, then      *)
(* _restore_containerd in the restore that follows, on one machine.        *)
(***************************************************************************)
ContainerdInputs ==
    [service : {"absent", "inactive", "active"},
     stop_ok : BOOLEAN,
     start_ok : BOOLEAN]

(* `systemctl is-active` exits 0 and prints active only for an active unit *)
HandleExistingContainerd(in) ==
    IF in.service # "active"
    THEN <<Issued("is-active", FALSE)>>
    ELSE <<Issued("is-active", TRUE), Issued("stop", in.stop_ok)>>

(* `systemctl cat` exits 0 iff the unit exists                             *)
RestoreContainerd(in) ==
    IF in.service = "absent"
    THEN <<Issued("cat", FALSE)>>
    ELSE <<Issued("cat", TRUE), Issued("start", in.start_ok)>>

ApplyContainerd ==
    /\ fname = "k8s_containerd"
    /\ ~fdone
    /\ fout' = [prepare |-> HandleExistingContainerd(farg),
                restore |-> RestoreContainerd(farg)]
    /\ fdone' = TRUE
    /\ UNCHANGED <<fname, farg>>
    /\ FunctionsFrame

(* C39: the restore issues systemctl start containerd.service only if the  *)
(* prepare stopped the service: found it active and its stop succeeded.    *)
C39_StartOnlyIfPrepareStopped ==
    (fname = "k8s_containerd" /\ fdone) =>
        ((\E i \in 1..Len(fout.restore) : fout.restore[i].verb = "start") =>
            /\ farg.service = "active"
            /\ \E i \in 1..Len(fout.prepare) : fout.prepare[i] = Issued("stop", TRUE))

FunctionsInit ==
    /\ PlanIdle
    /\ JujuIdle
    /\ RetryIdle
    /\ SnapdIdle
    /\ DebIdle
    /\ SnapHandlerIdle
    /\ fout = <<>>
    /\ fdone = FALSE
    /\ \/ fname = "snap_info" /\ farg \in SnapInfoInputs
       \/ fname = "bootstrap_args" /\ farg \in BootstrapInputs
       \/ fname = "write_credentials" /\ farg \in CredentialProviders
       \/ fname = "plan_snaps" /\ farg \in PlanSnapsInputs
       \/ fname = "home_operation" /\ farg \in HomeInputs
       \/ fname = "full_command" /\ farg \in CommandInputs
       \/ fname = "lxd_install" /\ farg \in LXDInstallInputs
       \/ fname = "k8s_containerd" /\ farg \in ContainerdInputs

FunctionsNext ==
    \/ ApplySnapInfo
    \/ ApplyBootstrapArgs
    \/ ApplyWriteCredentials
    \/ ApplyPlanSnaps
    \/ ApplyHomeOperation
    \/ ApplyFullCommand
    \/ ApplyLXDInstall
    \/ ApplyContainerd

FunctionsSpec == FunctionsInit /\ [][FunctionsNext]_vars

(* C25: in prepare of the controller handler the juju snap is installed    *)
(* first, then the data directory made, then the credentials file written  *)
(* when a provider has credentials; no juju command is started before all  *)
(* of that is done.                                                        *)
C25_InstallDirCredentialsBootstrap ==
    jaction = "prepare" =>
        /\ jmade \in {<<>>, <<"snap">>, <<"snap", "dir">>,
                      <<"snap", "dir", "credentials">>}
        /\ (jh = "bootstrap" \/ \E p \in JujuProviderNames : jissued[p] # {}) =>
              /\ Len(jmade) >= 2
              /\ Len(jmade) = 3 <=>
                    \E p \in JujuProviderNames : Listed(p) /\ jcreds[p]

C25_CredentialsBeforeShowController ==
    /\ jaction = "prepare"
    /\ jh = "bootstrap"
    /\ jmade = <<"snap", "dir", "credentials">>
    /\ jissued["google"] = {"show-controller"}
    /\ jpc["google"] = "bootstrap"

(***************************************************************************)
(* More properties of Plan                                                 *)
(***************************************************************************)
Position(name) ==
    CHOOSE i \in 1..Len(SUPPORTED_PROVIDERS) : SUPPORTED_PROVIDERS[i] = name

(* C28: a plan's providers are exactly the providers the configuration     *)
(* enables, each once, lxd before microk8s before k8s before google; a     *)
(* name that is not enabled or not supported gets no provider.             *)
C28_EnabledProvidersInFixedOrder ==
    plan # NoPlan =>
        /\ {plan.providers[i] : i \in 1..Len(plan.providers)} = config.enable
        /\ \A i, j \in 1..Len(plan.providers) :
              i < j => Position(plan.providers[i]) < Position(plan.providers[j])
        /\ \A name \in (ProviderNames \ config.enable) \cup {"aws"} :
              ~CreateProvider(name, config)

C28_PlanOfMicroK8sAndGoogle ==
    /\ plan.providers = <<"microk8s", "google">>
    /\ config.enable = {"google", "microk8s"}

(***************************************************************************)
(* More properties of Plan.execute and Manager                             *)
(***************************************************************************)
(* C31: in a restore no provider has started unless the controller         *)
(* handler has completed (where the plan runs one), and no package         *)
(* handler has started unless every provider of the plan has completed.    *)
C31_RestoreInReverseOrder ==
    (action = "restore" /\ plan # NoPlan) =>
        /\ \A p \in Range(plan.providers) :
              Started(p) => (Completed("juju") \/ JujuDisabled)
        /\ \A h \in PackageHandlers :
              Started(h) => \A p \in Range(plan.providers) : Completed(p)

(* C33: the step in which a prepare writes its terminal status is taken    *)
(* with no task of the plan pending: none is ready, waiting for a lock,    *)
(* awaiting its children or running a subprocess.                          *)
C33_QuiescentAtTerminalWrite ==
    [][(action = "prepare" /\ Len(written) = 1 /\ Len(written') = 2) =>
          \A t \in Tasks : ~Pending(t)]_vars

(***************************************************************************)
(* More properties of JujuHandler: the model testing                       *)
(***************************************************************************)
(* C34: when a prepare has ended without an exception, the controller of   *)
(* every provider that is to be bootstrapped has the model testing, added  *)
(* by an add-model of this prepare or of an earlier one.                   *)
C34_SucceededPrepareHasModel ==
    (jaction = "prepare" /\ jh = "finished" /\ jout = "ok") =>
        \A p \in JujuProviderNames :
            (Listed(p) /\ jbootstrap[p]) => p \in models

(***************************************************************************)
(* Progress.  The event loop runs a task that can take a step, and every   *)
(* subprocess exits: some step is taken whenever one can be.               *)
(***************************************************************************)
LiveSpec == Init /\ [][Next]_vars /\ WF_vars(Next)

LockedLocks(exe) == {i \in 1..Len(command_locks[exe]) : command_locks[exe][i].locked}

C36_RestoreLeavesRecord ==
    [][(action = "restore" \/ action' = "restore") =>
          /\ record' = record
          /\ written' = <<>>]_vars

C36_FailedRestoreOfSucceededPrepare ==
    /\ action = "restore"
    /\ mpc = "finished"
    /\ outcome = "lxd"
    /\ record.status = "succeeded"
    /\ written = <<>>

(* C37: in a prepare the controller handler issues no juju command         *)
(* (show-controller, bootstrap, add-model) for a provider of its list      *)
(* whose bootstrap() is false.                                             *)
C37_NoJujuCommandWithoutBootstrap ==
    jaction = "prepare" =>
        \A p \in JujuProviderNames :
            ~jbootstrap[p] =>
                /\ jissued[p] = {}
                /\ jdone[p] = {}
                /\ jboot[p] = 0
                /\ jpc[p] \in {"idle", "done"}

C37_LXDListedOnlyGoogleBootstrapped ==
    /\ jaction = "prepare"
    /\ jh = "finished"
    /\ jout = "ok"
    /\ jproviders = <<"lxd", "google">>
    /\ ~jbootstrap["lxd"]
    /\ jissued["lxd"] = {}
    /\ "add-model" \in jdone["google"]

====
